---- MODULE Spec2Model ----
(***************************************************************************)
(* whagonsRTE: the tenant connection registry, the per-tenant change       *)
(* listeners, the session registry and the broadcaster, as one state       *)
(* machine.  Every goroutine of the engine is a task whose position is a   *)
(* pc field; every step is one stretch of code between two points where    *)
(* another goroutine can interleave (a lock acquisition or an I/O call).   *)
(***************************************************************************)
EXTENDS Integers, Sequences, FiniteSets, TLC

\* ------------------------------------------------------------------ bounds
MaxSessions == 2
MaxNotifications == 2
MaxListeners == 3
MaxRetryTasks == 2
MaxHandles == 3
MaxTenantEvents == 3
MaxBroadcasts == 1
MaxTime == 4
CacheTTL == 2
TokenExpiresAt == 3

\* --------------------------------------------------------------- constants
maxRetries == 5

Tenants == {"A", "B"}
Tables == {"wh_tasks"}
SessionIds == 1..MaxSessions
ListenerIds == 1..MaxListeners
RetryIds == 1..MaxRetryTasks
ReloadCallers == {"main", "landlord", "api"}

\* The physical database of a tenant row (tenants.database).
DatabaseOf(t) == "db_" \o t
Databases == {DatabaseOf(t) : t \in Tenants}

\* The database a tenant row names after its database column was changed.
MovedDatabaseOf(t) == "db2_" \o t
AllDatabases == Databases \cup {MovedDatabaseOf(t) : t \in Tenants}

EmptyMap == [x \in {} |-> 0]

VARIABLES
    \* RealtimeEngine fields
    landlordDB,             \* "nil" | "connected" | "closed" (the handle after Close)
    tenantDBs,              \* tenant name -> handle id (index into handles)
    sessions,               \* session id -> Tenant of the WebSocketSession
    authenticatedSessions,  \* session id -> [TenantName] of the AuthenticatedSession
    mutex,                  \* "free", or the task holding it across I/O steps
    \* websocket connections and what each client has been sent
    connState,              \* session id -> "none" | "upgraded" | "open" | "writeBroken" | "dead" | "done"
    nextSession,            \* next generated session id
    identities,             \* session id -> the AuthenticatedSession built at its handshake
    received,               \* session id -> sequence of database messages written to it
    \* background sweeps and control-plane calls
    zombie,                 \* cleanupZombieSessions: [pc, todo, zombieSessions]
    disconnect,             \* DisconnectAllSessions: [pc, todo], todo the part of its copy not yet closed
    system,                 \* BroadcastSystemMessage: [pc, todo, failed, calls]
    writers,                \* session id -> the tasks inside a WriteMessage on its connection
    \* databases (the environment)
    tenantsTable,           \* landlord tenants rows with a database: name -> database
    dbUp,                   \* database -> it exists and accepts connections
    triggers,               \* tenant name -> tables carrying a <table>_changes_trigger
    emitted,                \* tenant name -> number of change notifications emitted
    events,                 \* number of tenant-table changes made so far
    handles,                \* sequence of opened *sql.DB: [tenant, database, pinged, open]
    \* tasks
    main,                   \* pc of func main
    startListeners,         \* startPublicationListeners: [pc, tenantDBs, todo]
    landlordQueue,          \* listener.Notify of listenToLandlordTenantChanges
    landlordListening,      \* the landlord listener has issued LISTEN
    reload,                 \* caller -> reloadTenantDatabases activation
    retry,                  \* retry id -> connectToTenantWithRetry activation
    listeners,              \* listener id -> listenToTenantPublications activation
    \* authentication
    tokenCache,             \* [hash, domain] -> CachedToken [AuthSession, ExpiresAt, Domain]
    now,                    \* the clock
    lastAuth,               \* outcome of the last authenticateTokenForDomain call
    refused,                \* the answer to the last connection request refused, "" if none
    \* one tenant database's trigger catalog and the outcome of a channel discovery on it
    pg_trigger,             \* set of [tgname, tgrelid, tgisinternal]
    discovered              \* [done, channels]: the channels a discovery subscribed to

engineVars == <<landlordDB, tenantDBs, sessions, authenticatedSessions, mutex>>
sessionVars == <<connState, nextSession, identities, received, zombie, disconnect, system, writers>>
dbVars == <<tenantsTable, dbUp, triggers, emitted, events, handles>>
taskVars == <<main, startListeners, landlordQueue, landlordListening, reload, retry, listeners>>
authVars == <<tokenCache, now, lastAuth, refused>>
catalogVars == <<pg_trigger, discovered>>
vars == <<engineVars, sessionVars, dbVars, taskVars, authVars, catalogVars>>

\* ----------------------------------------------------------------- helpers
\* Faulty variant: deleting a key that is absent drops another entry.
Remove_dropsOther(f, k) ==
    IF k \in DOMAIN f \/ DOMAIN f = {} THEN [x \in DOMAIN f \ {k} |-> f[x]]
    ELSE LET y == CHOOSE z \in DOMAIN f : TRUE IN [x \in DOMAIN f \ {y} |-> f[x]]
Remove(f, k) == [x \in DOMAIN f \ {k} |-> f[x]]
RemoveAll(f, ks) == [x \in DOMAIN f \ ks |-> f[x]]
Put(f, k, v) == [x \in DOMAIN f \cup {k} |-> IF x = k THEN v ELSE f[x]]
Range(s) == {s[i] : i \in DOMAIN s}
Min(S) == CHOOSE x \in S : \A y \in S : x <= y

IdleZombie == [pc |-> "idle", todo |-> {}, zombieSessions |-> {}]
IdleDisconnect == [pc |-> "idle", todo |-> {}]
IdleSystem == [pc |-> "idle", todo |-> {}, failed |-> 0, calls |-> 0]
NoWriters == [s \in SessionIds |-> {}]
IdleStartListeners == [pc |-> "idle", tenantDBs |-> {}, rows |-> EmptyMap, todo |-> {}]
\* added and failed record, for the activation's lifetime, the tenants it put in
\* the pool map and those whose connectToTenant returned an error; after the
\* return newTenantsCount keeps the number the activation reported.
IdleReload == [pc |-> "idle", rows |-> EmptyMap, existingTenants |-> {}, todo |-> {}, cur |-> "", h |-> 0,
               newTenantsCount |-> 0, added |-> {}, failed |-> {}]

\* The identity slot of a session id not handed out yet.
NoIdentity == [TenantName |-> "", SessionID |-> 0]

\* A listener activation outside a broadcast.
NoBroadcast == [msg |-> 0, authSessions |-> EmptyMap, todo |-> {}, failed |-> 0]

NewListener(t, d) ==
    [tenant |-> t, database |-> d, pc |-> "start", db |-> 0, channels |-> {}, inbox |-> <<>>,
     b |-> NoBroadcast]

\* ------------------------------------------------------------ authorization
\* auth.go is not among the sources: both operators follow the specification.
authenticateTokenForDomain(t) == [TenantName |-> t, SessionID |-> 0]

canAccessTenant(authSession, tenantName) == authSession.TenantName = tenantName

\* ---- the authentication cache, after spec.md 4.3 (auth.go is not among the sources)
\* The tokens on record: one for domain a.example of tenant A that expires at
\* TokenExpiresAt, one for domain b.example of tenant B that never expires (0).
TokenRecords ==
    {[token |-> "token", domain |-> "a.example", tenant |-> "A", expires_at |-> TokenExpiresAt],
     [token |-> "other", domain |-> "b.example", tenant |-> "B", expires_at |-> 0]}

TokenExpired(record, t) == record.expires_at # 0 /\ t >= record.expires_at

\* The full verification path: the token's record for the domain's tenant, unexpired.
VerifyToken(token, domain, t) ==
    {r \in TokenRecords : r.token = token /\ r.domain = domain /\ ~TokenExpired(r, t)}

\* The cache key: a one-way hash of the token plus the domain.
CacheKey(token, domain) == <<"sha256(" \o token \o ")", domain>>

\* Faulty variant: the entry lives for the cache TTL whatever the token's expiry.
CacheExpiry_ttlOnly(t, expires_at) == t + CacheTTL

\* The expiry of an entry cached at t: the shorter of cache TTL and token expiry.
CacheExpiry(t, expires_at) ==
    IF expires_at = 0 THEN t + CacheTTL ELSE Min({t + CacheTTL, expires_at})

\* An entry is served while it has not expired.
CacheEntryLive(entry, t) == t < entry.ExpiresAt

\* authenticate(token, domain): a live cache entry is returned; otherwise the full
\* verification, which populates the cache on success only.
authenticateTokenForDomain_call(token, domain) ==
    /\ main = "serving"
    /\ LET key == CacheKey(token, domain)
           hit == key \in DOMAIN tokenCache /\ CacheEntryLive(tokenCache[key], now)
           verified == VerifyToken(token, domain, now)
           ok == verified # {}
           record == CHOOSE r \in verified : TRUE
           entry == [AuthSession |-> authenticateTokenForDomain(record.tenant),
                     TokenExpiresAt |-> record.expires_at,
                     ExpiresAt |-> CacheExpiry(now, record.expires_at), Domain |-> domain]
       IN IF hit
          THEN /\ lastAuth' = [outcome |-> "cached", at |-> now, until |-> tokenCache[key].ExpiresAt]
               /\ tokenCache' = tokenCache
          ELSE IF ok
          THEN /\ lastAuth' = [outcome |-> "verified", at |-> now, until |-> entry.ExpiresAt]
               /\ tokenCache' = Put(tokenCache, key, entry)
          ELSE /\ lastAuth' = [outcome |-> "failed", at |-> now, until |-> 0]
               /\ tokenCache' = tokenCache
    /\ UNCHANGED <<now, refused, catalogVars, engineVars, sessionVars, dbVars, taskVars>>

\* sweepExpired: the entries whose expiry has passed are removed.
cleanupExpiredTokens ==
    /\ main = "serving"
    /\ \E key \in DOMAIN tokenCache : ~CacheEntryLive(tokenCache[key], now)
    /\ tokenCache' = [key \in {k \in DOMAIN tokenCache : CacheEntryLive(tokenCache[k], now)} |->
                         tokenCache[key]]
    /\ UNCHANGED <<now, lastAuth, refused, catalogVars, engineVars, sessionVars, dbVars, taskVars>>

\* Time passes.
Tick ==
    /\ now < MaxTime
    /\ now' = now + 1
    /\ UNCHANGED <<tokenCache, lastAuth, refused, catalogVars, engineVars, sessionVars, dbVars, taskVars>>

\* ---------------------------------------------------------- session registry
\* websocketHandler: authenticate, upgrade, generate the id, register the session
\* in both maps inside one Lock/Unlock.
websocketHandler(t) ==
    /\ main = "serving"
    /\ mutex = "free"
    /\ nextSession <= MaxSessions
    /\ LET sessionID == nextSession
           authSession == [authenticateTokenForDomain(t) EXCEPT !.SessionID = sessionID]
       IN /\ sessions' = Put(sessions, sessionID, authSession.TenantName)
          /\ authenticatedSessions' = Put(authenticatedSessions, sessionID, authSession)
          /\ connState' = [connState EXCEPT ![sessionID] = "open"]
          /\ nextSession' = sessionID + 1
          /\ identities' = [identities EXCEPT ![sessionID] = authSession]
    /\ UNCHANGED <<authVars, catalogVars, landlordDB, tenantDBs, mutex, received, zombie, disconnect, system, writers, dbVars, taskVars>>

\* The early returns of websocketHandler, in the order of the code: no token, no
\* domain, authenticateTokenForDomain's error, the upgrader's error.
websocketHandler_answer(token, domain, authOk, upgradeOk) ==
    IF token = "" THEN "401 Bearer token required"
    ELSE IF domain = "" THEN "400 Domain parameter required"
    ELSE IF ~authOk THEN "401 Authentication failed"
    ELSE IF ~upgradeOk THEN "upgrade failed"
    ELSE ""

\* Faulty variant: a refused request is registered all the same, without identity.
websocketHandler_refuse_registers(token, domain, authOk, upgradeOk) ==
    /\ main = "serving"
    /\ mutex = "free"
    /\ nextSession <= MaxSessions
    /\ websocketHandler_answer(token, domain, authOk, upgradeOk) # ""
    /\ refused' = websocketHandler_answer(token, domain, authOk, upgradeOk)
    /\ sessions' = Put(sessions, nextSession, "")
    /\ connState' = [connState EXCEPT ![nextSession] = "open"]
    /\ nextSession' = nextSession + 1
    /\ UNCHANGED <<tokenCache, now, lastAuth, catalogVars, landlordDB, tenantDBs,
                   authenticatedSessions, mutex, identities, received, zombie, disconnect, system, writers,
                   dbVars, taskVars>>

\* A request that websocketHandler refuses: it answers and returns.
websocketHandler_refuse(token, domain, authOk, upgradeOk) ==
    /\ main = "serving"
    /\ websocketHandler_answer(token, domain, authOk, upgradeOk) # ""
    /\ refused' = websocketHandler_answer(token, domain, authOk, upgradeOk)
    /\ UNCHANGED <<tokenCache, now, lastAuth, catalogVars, engineVars, sessionVars, dbVars, taskVars>>

\* websocketHandler up to the lock: the request is authenticated and upgraded, the
\* session id generated, the session and its identity built.
websocketHandler_upgrade(t) ==
    /\ main = "serving"
    /\ nextSession <= MaxSessions
    /\ LET sessionID == nextSession
           authSession == [authenticateTokenForDomain(t) EXCEPT !.SessionID = sessionID]
       IN /\ connState' = [connState EXCEPT ![sessionID] = "upgraded"]
          /\ identities' = [identities EXCEPT ![sessionID] = authSession]
          /\ nextSession' = sessionID + 1
    /\ UNCHANGED <<authVars, catalogVars, engineVars, received, zombie, disconnect, system, writers, dbVars, taskVars>>

\* Faulty variant: the identity is not entered.
websocketHandler_register_sessionsOnly(s) ==
    /\ connState[s] = "upgraded"
    /\ mutex = "free"
    /\ sessions' = Put(sessions, s, identities[s].TenantName)
    /\ connState' = [connState EXCEPT ![s] = "open"]
    /\ UNCHANGED <<authVars, catalogVars, landlordDB, tenantDBs, authenticatedSessions, mutex,
                   nextSession, identities, received, zombie, disconnect, system, writers, dbVars, taskVars>>

\* websocketHandler's critical section: both map entries inside one Lock/Unlock.
websocketHandler_register(s) ==
    /\ connState[s] = "upgraded"
    /\ mutex = "free"
    /\ sessions' = Put(sessions, s, identities[s].TenantName)
    /\ authenticatedSessions' = Put(authenticatedSessions, s, identities[s])
    /\ connState' = [connState EXCEPT ![s] = "open"]
    /\ UNCHANGED <<authVars, catalogVars, landlordDB, tenantDBs, mutex, nextSession, identities,
                   received, zombie, disconnect, system, writers, dbVars, taskVars>>

\* The peer goes away or the transport breaks: from now on writes and reads fail.
ClientDrop(s) ==
    /\ connState[s] = "open"
    /\ connState' = [connState EXCEPT ![s] = "dead"]
    /\ UNCHANGED <<authVars, catalogVars, engineVars, nextSession, identities, received, zombie, disconnect, system, writers, dbVars, taskVars>>

\* Writes to the connection start to fail (a peer that stopped reading, a write
\* deadline) while the blocked ReadMessage of readPump has not returned.
WriteBreaks(s) ==
    /\ connState[s] = "open"
    /\ connState' = [connState EXCEPT ![s] = "writeBroken"]
    /\ UNCHANGED <<authVars, catalogVars, engineVars, nextSession, identities, received, zombie, disconnect, system, writers, dbVars, taskVars>>

\* Faulty variant: writePump returns on the ping error without closing the connection.
writePump_pingFailed_noClose(s) ==
    /\ connState[s] = "writeBroken"
    /\ UNCHANGED vars

\* writePump at a tick of its ticker: the ping write fails, the pump returns and
\* its deferred Conn.Close makes the ReadMessage of readPump fail.
writePump_pingFailed(s) ==
    /\ connState[s] = "writeBroken"
    /\ connState' = [connState EXCEPT ![s] = "dead"]
    /\ UNCHANGED <<authVars, catalogVars, engineVars, nextSession, identities, received, zombie, disconnect, system, writers, dbVars, taskVars>>

\* ---- the writes to a connection, from the call of Conn.WriteMessage to its return
Writing(task, s) == task \in writers[s]

BeginWrite(task, s) == writers' = [writers EXCEPT ![s] = @ \cup {task}]

EndWrite(task, s) == writers' = [writers EXCEPT ![s] = @ \ {task}]

\* writePump at a tick of its ticker: Conn.WriteMessage(PingMessage) is called.
writePump_ping_write(s) ==
    /\ connState[s] = "open"
    /\ ~Writing(<<"writePump", s>>, s)
    /\ BeginWrite(<<"writePump", s>>, s)
    /\ UNCHANGED <<authVars, catalogVars, engineVars, connState, nextSession, identities, received,
                   zombie, disconnect, system, dbVars, taskVars>>

\* The ping write returns.
writePump_ping_written(s) ==
    /\ Writing(<<"writePump", s>>, s)
    /\ EndWrite(<<"writePump", s>>, s)
    /\ UNCHANGED <<authVars, catalogVars, engineVars, connState, nextSession, identities, received,
                   zombie, disconnect, system, dbVars, taskVars>>

\* readPump has read a client message and calls sendMessage with the echo.
readPump_echo_write(s) ==
    /\ connState[s] = "open"
    /\ ~Writing(<<"readPump", s>>, s)
    /\ BeginWrite(<<"readPump", s>>, s)
    /\ UNCHANGED <<authVars, catalogVars, engineVars, connState, nextSession, identities, received,
                   zombie, disconnect, system, dbVars, taskVars>>

\* The echo write returns; readPump goes back to ReadMessage.
readPump_echo_written(s) ==
    /\ Writing(<<"readPump", s>>, s)
    /\ EndWrite(<<"readPump", s>>, s)
    /\ UNCHANGED <<authVars, catalogVars, engineVars, connState, nextSession, identities, received,
                   zombie, disconnect, system, dbVars, taskVars>>

\* Faulty variant: the identity entry is left behind.
cleanupSession_sessionsOnly(s) ==
    /\ connState[s] = "dead"
    /\ mutex = "free"
    /\ sessions' = Remove(sessions, s)
    /\ connState' = [connState EXCEPT ![s] = "done"]
    /\ UNCHANGED <<authVars, catalogVars, landlordDB, tenantDBs, authenticatedSessions, mutex, nextSession, identities,
                   received, zombie, disconnect, system, writers, dbVars, taskVars>>

\* readPump's deferred cleanupSession after its read failed: both deletes in one
\* Lock/Unlock, then Conn.Close.
cleanupSession(s) ==
    /\ connState[s] = "dead"
    /\ mutex = "free"
    /\ sessions' = Remove(sessions, s)
    /\ authenticatedSessions' = Remove(authenticatedSessions, s)
    /\ connState' = [connState EXCEPT ![s] = "done"]
    /\ UNCHANGED <<authVars, catalogVars, landlordDB, tenantDBs, mutex, nextSession, identities, received, zombie, disconnect, system, writers, dbVars, taskVars>>

\* cleanupZombieSessions takes the write lock and keeps it (defer Unlock) while it
\* probes every session.
cleanupZombieSessions_lock ==
    /\ main = "serving"
    /\ zombie.pc = "idle"
    /\ mutex = "free"
    /\ mutex' = "zombie"
    /\ zombie' = [pc |-> "probe", todo |-> DOMAIN sessions, zombieSessions |-> {}]
    /\ UNCHANGED <<authVars, catalogVars, landlordDB, tenantDBs, sessions, authenticatedSessions, connState, nextSession, identities,
                   received, disconnect, system, writers, dbVars, taskVars>>

\* One iteration of the probe loop: a failed ping write marks the session.
cleanupZombieSessions_probe(s) ==
    /\ zombie.pc = "probe"
    /\ s \in zombie.todo
    /\ zombie' = [zombie EXCEPT !.todo = @ \ {s},
                                !.zombieSessions = IF connState[s] = "open" THEN @ ELSE @ \cup {s}]
    /\ UNCHANGED <<authVars, catalogVars, engineVars, connState, nextSession, identities, received, disconnect, system, writers, dbVars, taskVars>>

\* Faulty variant: the marked sessions are deleted from the session map only.
cleanupZombieSessions_cleanup_sessionsOnly ==
    /\ zombie.pc = "probe"
    /\ zombie.todo = {}
    /\ sessions' = RemoveAll(sessions, zombie.zombieSessions)
    /\ mutex' = "free"
    /\ zombie' = IdleZombie
    /\ UNCHANGED <<authVars, catalogVars, landlordDB, tenantDBs, authenticatedSessions, connState,
                   nextSession, identities, received, disconnect, system, writers, dbVars, taskVars>>

\* After the full sweep: close and delete every marked session from both maps,
\* then the deferred Unlock.
cleanupZombieSessions_cleanup ==
    /\ zombie.pc = "probe"
    /\ zombie.todo = {}
    /\ sessions' = RemoveAll(sessions, zombie.zombieSessions)
    /\ authenticatedSessions' = RemoveAll(authenticatedSessions, zombie.zombieSessions)
    /\ mutex' = "free"
    /\ zombie' = IdleZombie
    /\ UNCHANGED <<authVars, catalogVars, landlordDB, tenantDBs, connState, nextSession, identities, received, disconnect, system, writers, dbVars, taskVars>>

\* DisconnectAllSessions: copy the session map under the lock.
DisconnectAllSessions_snapshot ==
    /\ main = "serving"
    /\ disconnect.pc = "idle"
    /\ mutex = "free"
    /\ disconnect' = [pc |-> "closing", todo |-> DOMAIN sessions]
    /\ UNCHANGED <<authVars, catalogVars, engineVars, connState, nextSession, identities, received, zombie, system, writers, dbVars, taskVars>>

\* One iteration: shutdown message, close frame, Conn.Close.
DisconnectAllSessions_close(s) ==
    /\ disconnect.pc = "closing"
    /\ s \in disconnect.todo
    /\ disconnect' = [disconnect EXCEPT !.todo = @ \ {s}]
    /\ connState' = [connState EXCEPT ![s] = IF @ = "open" THEN "dead" ELSE @]
    /\ UNCHANGED <<authVars, catalogVars, engineVars, nextSession, identities, received, zombie, system, writers, dbVars, taskVars>>

\* Both maps are replaced by empty ones in one Lock/Unlock.
DisconnectAllSessions_clear ==
    /\ disconnect.pc = "closing"
    /\ disconnect.todo = {}
    /\ mutex = "free"
    /\ sessions' = EmptyMap
    /\ authenticatedSessions' = EmptyMap
    /\ disconnect' = IdleDisconnect
    /\ UNCHANGED <<authVars, catalogVars, landlordDB, tenantDBs, mutex, connState, nextSession, identities, received, zombie, system, writers, dbVars, taskVars>>

\* What a client is written by BroadcastSystemMessage, in the shape of the
\* database messages of received.
SystemMessage == [tenant_name |-> "", table |-> "system", n |-> 0]

\* The position of BroadcastSystemMessage after one iteration of its loop.
AfterSystemIteration(todo, failed) ==
    IF failed # 0 THEN "remove" ELSE IF todo = {} THEN "idle" ELSE "send"

\* BroadcastMessage -> BroadcastSystemMessage: copy the session map under RLock.
BroadcastSystemMessage_snapshot ==
    /\ main = "serving"
    /\ system.pc = "idle"
    /\ system.calls < MaxBroadcasts
    /\ mutex = "free"
    /\ system' = [pc |-> AfterSystemIteration(DOMAIN sessions, 0), todo |-> DOMAIN sessions,
                  failed |-> 0, calls |-> system.calls + 1]
    /\ UNCHANGED <<authVars, catalogVars, engineVars, connState, nextSession, identities, received,
                   zombie, disconnect, writers, dbVars, taskVars>>

\* One iteration of BroadcastSystemMessage's loop: sendMessage to the session,
\* whatever its identity; a failed write leads to the removal step.
BroadcastSystemMessage_send(sessionID) ==
    /\ system.pc = "send"
    /\ sessionID \in system.todo
    /\ LET written == connState[sessionID] = "open"
           todo == system.todo \ {sessionID}
           failed == IF written THEN 0 ELSE sessionID
       IN /\ received' = IF written
                         THEN [received EXCEPT ![sessionID] = Append(@, SystemMessage)]
                         ELSE received
          /\ system' = [system EXCEPT !.pc = AfterSystemIteration(todo, failed),
                                      !.todo = todo, !.failed = failed]
    /\ UNCHANGED <<authVars, catalogVars, engineVars, connState, nextSession, identities,
                   zombie, disconnect, writers, dbVars, taskVars>>

\* The failed session is deleted from both maps in one Lock/Unlock.
BroadcastSystemMessage_remove ==
    /\ system.pc = "remove"
    /\ mutex = "free"
    /\ sessions' = Remove(sessions, system.failed)
    /\ authenticatedSessions' = Remove(authenticatedSessions, system.failed)
    /\ system' = [system EXCEPT !.pc = AfterSystemIteration(system.todo, 0), !.failed = 0]
    /\ UNCHANGED <<authVars, catalogVars, landlordDB, tenantDBs, mutex, connState, nextSession,
                   identities, received, zombie, disconnect, writers, dbVars, taskVars>>

\* ------------------------------------------------------------ change listener
CanSpawnListener == DOMAIN listeners # ListenerIds

\* Faulty variant: no listener is started.
SpawnListener_none(ls, t, d) == ls

\* go e.listenToTenantPublications(tenantName, dbName)
SpawnListener(ls, t, d) == Put(ls, Min(ListenerIds \ DOMAIN ls), NewListener(t, d))

Subscribed(l) == listeners[l].pc \in {"loop", "send", "remove"}

\* Faulty variant: the task goes on to the catalog query whether or not the tenant
\* is in the pool map.
listenToTenantPublications_lookup_noExistsCheck(l) ==
    /\ l \in DOMAIN listeners
    /\ listeners[l].pc = "start"
    /\ mutex = "free"
    /\ LET tenantName == listeners[l].tenant
       IN listeners' = [listeners EXCEPT ![l].pc = "query",
                                         ![l].db = IF tenantName \in DOMAIN tenantDBs
                                                   THEN tenantDBs[tenantName] ELSE 1]
    /\ UNCHANGED <<authVars, catalogVars, engineVars, sessionVars, dbVars, main, startListeners, landlordQueue,
                   landlordListening, reload, retry>>

\* listenToTenantPublications up to the lookup of the tenant's pooled connection
\* under RLock; a tenant missing from the pool map ends the task.
listenToTenantPublications_lookup(l) ==
    /\ l \in DOMAIN listeners
    /\ listeners[l].pc = "start"
    /\ mutex = "free"
    /\ LET tenantName == listeners[l].tenant
       IN listeners' = IF tenantName \in DOMAIN tenantDBs
                       THEN [listeners EXCEPT ![l].pc = "query", ![l].db = tenantDBs[tenantName]]
                       ELSE Remove(listeners, l)
    /\ UNCHANGED <<authVars, catalogVars, engineVars, sessionVars, dbVars, main, startListeners, landlordQueue,
                   landlordListening, reload, retry>>

\* Faulty variant: the task subscribes and loops whatever the number of channels.
EntersEventLoop_anyCount(queryOk, channels) == queryOk

\* The early returns before the subscriptions: the query's error, len(channels) == 0.
EntersEventLoop(queryOk, channels) == queryOk /\ channels # {}

\* The trigger-catalog query on the pooled connection and the subscriptions: a
\* query error or zero channels end the task, otherwise it enters the event loop.
listenToTenantPublications_discover(l) ==
    /\ l \in DOMAIN listeners
    /\ listeners[l].pc = "query"
    /\ LET tenantName == listeners[l].tenant
           queryOk == handles[listeners[l].db].open /\ dbUp[handles[listeners[l].db].database]
           channels == triggers[tenantName]
       IN listeners' = IF EntersEventLoop(queryOk, channels)
                       THEN [listeners EXCEPT ![l].pc = "loop", ![l].channels = channels]
                       ELSE Remove(listeners, l)
    /\ UNCHANGED <<authVars, catalogVars, engineVars, sessionVars, dbVars, main, startListeners, landlordQueue,
                   landlordListening, reload, retry>>

\* ---- the trigger-catalog query and the channel names
\* A name is a sequence of pieces; "_" is the one-character piece, "changes_trigger"
\* the literal, any other piece a word of one or more ordinary characters.
\* tgname LIKE '%_changes_trigger': in a LIKE pattern _ matches any one character,
\* so the name ends with the literal and has at least one character before it.
LIKE_changes_trigger(tgname) ==
    Len(tgname) >= 2 /\ tgname[Len(tgname)] = "changes_trigger"

\* REPLACE(tgname, '_changes_trigger', ''): every occurrence is removed.
RECURSIVE REPLACE_changes_trigger(_)
REPLACE_changes_trigger(tgname) ==
    IF tgname = <<>> THEN <<>>
    ELSE IF Len(tgname) >= 2 /\ tgname[1] = "_" /\ tgname[2] = "changes_trigger"
    THEN REPLACE_changes_trigger(SubSeq(tgname, 3, Len(tgname)))
    ELSE <<tgname[1]>> \o REPLACE_changes_trigger(Tail(tgname))

\* fmt.Sprintf("whagons_%s_changes", tableName)
ChannelName(tableName) == <<"whagons", "_">> \o tableName \o <<"_", "changes">>

\* The rows of SELECT DISTINCT ... FROM pg_trigger WHERE ... AND tgisinternal = false
TriggerQuery(catalog) ==
    {REPLACE_changes_trigger(tr.tgname) :
        tr \in {x \in catalog : LIKE_changes_trigger(x.tgname) /\ ~x.tgisinternal}}

\* The query, the channel list built from its rows and the subscriptions; with no
\* channel the task returns without subscribing.
listenToTenantPublications_channels ==
    /\ ~discovered.done
    /\ discovered' = [done |-> TRUE, channels |-> {ChannelName(tableName) : tableName \in TriggerQuery(pg_trigger)}]
    /\ UNCHANGED <<authVars, pg_trigger, engineVars, sessionVars, dbVars, taskVars>>

\* The idle branch of the event loop: the keepalive Ping fails and the task returns.
listenToTenantPublications_pingFailed(l) ==
    /\ l \in DOMAIN listeners
    /\ listeners[l].pc = "loop"
    /\ listeners[l].inbox = <<>>
    /\ ~dbUp[listeners[l].database]
    /\ listeners' = Remove(listeners, l)
    /\ UNCHANGED <<authVars, catalogVars, engineVars, sessionVars, dbVars, main, startListeners, landlordQueue,
                   landlordListening, reload, retry>>

TotalEmitted == emitted["A"] + emitted["B"]

\* A row change in tenant t's table tb: the trigger notifies channel
\* whagons_<tb>_changes, which reaches every listener connection subscribed to it.
EmitChange(t, tb) ==
    /\ TotalEmitted < MaxNotifications
    /\ dbUp[DatabaseOf(t)]
    /\ tb \in triggers[t]
    /\ emitted' = [emitted EXCEPT ![t] = @ + 1]
    /\ listeners' = [l \in DOMAIN listeners |->
                        IF listeners[l].tenant = t /\ Subscribed(l) /\ tb \in listeners[l].channels
                        THEN [listeners[l] EXCEPT !.inbox = Append(@, [n |-> emitted[t] + 1, table |-> tb,
                                                                       extra |-> "json"])]
                        ELSE listeners[l]]
    /\ UNCHANGED <<authVars, catalogVars, engineVars, sessionVars, tenantsTable, dbUp, triggers, events, handles, main,
                   startListeners, landlordQueue, landlordListening, reload, retry>>

\* What else a listener's connection delivers on listener.Notify: a notification
\* sent by hand on a subscribed channel whose payload is not JSON ("malformed"),
\* and the nil that pq sends after it re-established the connection ("nil").
EmitOther(t, tb, extra) ==
    /\ TotalEmitted < MaxNotifications
    /\ dbUp[DatabaseOf(t)]
    /\ tb \in triggers[t]
    /\ emitted' = [emitted EXCEPT ![t] = @ + 1]
    /\ listeners' = [l \in DOMAIN listeners |->
                        IF listeners[l].tenant = t /\ Subscribed(l) /\ tb \in listeners[l].channels
                        THEN [listeners[l] EXCEPT !.inbox = Append(@, [n |-> emitted[t] + 1, table |-> tb,
                                                                       extra |-> extra])]
                        ELSE listeners[l]]
    /\ UNCHANGED <<authVars, catalogVars, engineVars, sessionVars, tenantsTable, dbUp, triggers, events, handles, main,
                   startListeners, landlordQueue, landlordListening, reload, retry>>

\* Faulty variant: a nil notification ends the event loop.
listenToTenantPublications_nil_returns(l) ==
    /\ l \in DOMAIN listeners
    /\ listeners[l].pc = "loop"
    /\ listeners[l].inbox # <<>>
    /\ Head(listeners[l].inbox).extra = "nil"
    /\ listeners' = Remove(listeners, l)
    /\ UNCHANGED <<authVars, catalogVars, engineVars, sessionVars, dbVars, main, startListeners, landlordQueue,
                   landlordListening, reload, retry>>

\* The event loop receives nil: notification != nil is false, next iteration.
listenToTenantPublications_nil(l) ==
    /\ l \in DOMAIN listeners
    /\ listeners[l].pc = "loop"
    /\ listeners[l].inbox # <<>>
    /\ Head(listeners[l].inbox).extra = "nil"
    /\ listeners' = [listeners EXCEPT ![l].inbox = Tail(@)]
    /\ UNCHANGED <<authVars, catalogVars, engineVars, sessionVars, dbVars, main, startListeners, landlordQueue,
                   landlordListening, reload, retry>>

\* Faulty variant: the parse error ends the listener.
handlePublicationNotification_malformed_returns(l) ==
    /\ l \in DOMAIN listeners
    /\ listeners[l].pc = "loop"
    /\ listeners[l].inbox # <<>>
    /\ Head(listeners[l].inbox).extra = "malformed"
    /\ listeners' = Remove(listeners, l)
    /\ UNCHANGED <<authVars, catalogVars, engineVars, sessionVars, dbVars, main, startListeners, landlordQueue,
                   landlordListening, reload, retry>>

\* handlePublicationNotification on a payload that json.Unmarshal rejects: logged,
\* and the call returns to the event loop.
handlePublicationNotification_malformed(l) ==
    /\ l \in DOMAIN listeners
    /\ listeners[l].pc = "loop"
    /\ listeners[l].inbox # <<>>
    /\ Head(listeners[l].inbox).extra = "malformed"
    /\ listeners' = [listeners EXCEPT ![l].inbox = Tail(@)]
    /\ UNCHANGED <<authVars, catalogVars, engineVars, sessionVars, dbVars, main, startListeners, landlordQueue,
                   landlordListening, reload, retry>>

\* The keepalive of the event loop after 90 s without a notification: a
\* successful listener.Ping changes nothing.
listenToTenantPublications_ping(l) ==
    /\ l \in DOMAIN listeners
    /\ listeners[l].pc = "loop"
    /\ listeners[l].inbox = <<>>
    /\ dbUp[listeners[l].database]
    /\ UNCHANGED vars

\* The position after one iteration of the broadcast loop.
AfterIteration(b) == IF b.failed # 0 THEN "remove" ELSE IF b.todo = {} THEN "loop" ELSE "send"

\* The copies are locals of the call: they are gone when it returns, and the
\* entries of sessions already iterated are never read again.
FinishIteration(lr, b) ==
    LET pc == AfterIteration(b)
        live == [b EXCEPT !.authSessions = [x \in DOMAIN @ \cap b.todo |-> @[x]]]
    IN [lr EXCEPT !.pc = pc, !.b = IF pc = "loop" THEN NoBroadcast ELSE live]

\* handlePublicationNotification on the next notification of the event loop, up to
\* BroadcastPublicationMessage's copy of both maps under RLock.
handlePublicationNotification(l) ==
    /\ l \in DOMAIN listeners
    /\ listeners[l].pc = "loop"
    /\ listeners[l].inbox # <<>>
    /\ Head(listeners[l].inbox).extra = "json"
    /\ mutex = "free"
    /\ LET notification == Head(listeners[l].inbox)
           message == [tenant_name |-> listeners[l].tenant, table |-> notification.table,
                       n |-> notification.n]
           b == [msg |-> message, authSessions |-> authenticatedSessions,
                 todo |-> DOMAIN sessions, failed |-> 0]
       IN listeners' = [listeners EXCEPT ![l] = FinishIteration([@ EXCEPT !.inbox = Tail(@)], b)]
    /\ UNCHANGED <<authVars, catalogVars, engineVars, sessionVars, dbVars, main, startListeners, landlordQueue,
                   landlordListening, reload, retry>>

\* Faulty variant: the loop writes to every authenticated session, whatever its tenant.
BroadcastPublicationMessage_send_anyTenant(l, sessionID) ==
    /\ l \in DOMAIN listeners
    /\ listeners[l].pc = "send"
    /\ sessionID \in listeners[l].b.todo
    /\ LET b == listeners[l].b
           authorized == sessionID \in DOMAIN b.authSessions
           written == authorized /\ connState[sessionID] = "open"
           nb == [b EXCEPT !.todo = @ \ {sessionID},
                           !.failed = IF authorized /\ ~written THEN sessionID ELSE 0]
       IN /\ received' = IF written
                         THEN [received EXCEPT ![sessionID] = Append(@, b.msg)]
                         ELSE received
          /\ listeners' = [listeners EXCEPT ![l] = FinishIteration(@, nb)]
    /\ UNCHANGED <<authVars, catalogVars, engineVars, connState, nextSession, identities, zombie, disconnect, system, writers, dbVars, main,
                   startListeners, landlordQueue, landlordListening, reload, retry>>

\* Faulty variant: a failed write ends the loop.
BroadcastPublicationMessage_send_breaks(l, sessionID) ==
    /\ l \in DOMAIN listeners
    /\ listeners[l].pc = "send"
    /\ sessionID \in listeners[l].b.todo
    /\ LET b == listeners[l].b
           isAuthenticated == sessionID \in DOMAIN b.authSessions
           authorized == isAuthenticated /\ canAccessTenant(b.authSessions[sessionID], b.msg.tenant_name)
           written == authorized /\ connState[sessionID] = "open"
           nb == [b EXCEPT !.todo = IF authorized /\ ~written THEN {} ELSE @ \ {sessionID},
                           !.failed = IF authorized /\ ~written THEN sessionID ELSE 0]
       IN /\ received' = IF written
                         THEN [received EXCEPT ![sessionID] = Append(@, b.msg)]
                         ELSE received
          /\ listeners' = [listeners EXCEPT ![l] = FinishIteration(@, nb)]
    /\ UNCHANGED <<authVars, catalogVars, engineVars, connState, nextSession, identities, zombie, disconnect, system, writers, dbVars, main,
                   startListeners, landlordQueue, landlordListening, reload, retry>>

\* Faulty variant: a session without identity is written to as well.
BroadcastPublicationMessage_send_noIdentityCheck(l, sessionID) ==
    /\ l \in DOMAIN listeners
    /\ listeners[l].pc = "send"
    /\ sessionID \in listeners[l].b.todo
    /\ LET b == listeners[l].b
           isAuthenticated == sessionID \in DOMAIN b.authSessions
           authorized == ~isAuthenticated \/ canAccessTenant(b.authSessions[sessionID], b.msg.tenant_name)
           written == authorized /\ connState[sessionID] = "open"
           nb == [b EXCEPT !.todo = @ \ {sessionID},
                           !.failed = IF authorized /\ ~written THEN sessionID ELSE 0]
       IN /\ received' = IF written
                         THEN [received EXCEPT ![sessionID] = Append(@, b.msg)]
                         ELSE received
          /\ listeners' = [listeners EXCEPT ![l] = FinishIteration(@, nb)]
    /\ UNCHANGED <<authVars, catalogVars, engineVars, connState, nextSession, identities, zombie, disconnect, system, writers, dbVars, main,
                   startListeners, landlordQueue, landlordListening, reload, retry>>

\* One iteration of BroadcastPublicationMessage's loop over the snapshot: skip a
\* session without identity or without access, otherwise write; a failed write
\* leads to the removal step.
BroadcastPublicationMessage_send(l, sessionID) ==
    /\ l \in DOMAIN listeners
    /\ listeners[l].pc = "send"
    /\ sessionID \in listeners[l].b.todo
    /\ LET b == listeners[l].b
           isAuthenticated == sessionID \in DOMAIN b.authSessions
           authorized == isAuthenticated /\ canAccessTenant(b.authSessions[sessionID], b.msg.tenant_name)
           written == authorized /\ connState[sessionID] = "open"
           nb == [b EXCEPT !.todo = @ \ {sessionID},
                           !.failed = IF authorized /\ ~written THEN sessionID ELSE 0]
       IN /\ received' = IF written
                         THEN [received EXCEPT ![sessionID] = Append(@, b.msg)]
                         ELSE received
          /\ listeners' = [listeners EXCEPT ![l] = FinishIteration(@, nb)]
    /\ UNCHANGED <<authVars, catalogVars, engineVars, connState, nextSession, identities, zombie, disconnect, system, writers, dbVars, main,
                   startListeners, landlordQueue, landlordListening, reload, retry>>

\* Faulty variant: the failed session keeps its identity entry.
BroadcastPublicationMessage_remove_sessionsOnly(l) ==
    /\ l \in DOMAIN listeners
    /\ listeners[l].pc = "remove"
    /\ mutex = "free"
    /\ sessions' = Remove(sessions, listeners[l].b.failed)
    /\ listeners' = [listeners EXCEPT ![l] = FinishIteration(@, [@.b EXCEPT !.failed = 0])]
    /\ UNCHANGED <<authVars, catalogVars, landlordDB, tenantDBs, authenticatedSessions, mutex, sessionVars, dbVars, main,
                   startListeners, landlordQueue, landlordListening, reload, retry>>

\* The loop of BroadcastPublicationMessage at an authorized session: it calls
\* Conn.WriteMessage, holding no lock.
BroadcastPublicationMessage_write(l, sessionID) ==
    /\ l \in DOMAIN listeners
    /\ listeners[l].pc = "send"
    /\ sessionID \in listeners[l].b.todo
    /\ sessionID \in DOMAIN listeners[l].b.authSessions
    /\ canAccessTenant(listeners[l].b.authSessions[sessionID], listeners[l].b.msg.tenant_name)
    /\ ~Writing(<<"BroadcastPublicationMessage", l>>, sessionID)
    /\ BeginWrite(<<"BroadcastPublicationMessage", l>>, sessionID)
    /\ UNCHANGED <<authVars, catalogVars, engineVars, connState, nextSession, identities, received,
                   zombie, disconnect, system, dbVars, taskVars>>

\* That write returns: the iteration of BroadcastPublicationMessage_send, for
\* the session being written.
BroadcastPublicationMessage_written(l, sessionID) ==
    /\ l \in DOMAIN listeners
    /\ Writing(<<"BroadcastPublicationMessage", l>>, sessionID)
    /\ LET b == listeners[l].b
           written == connState[sessionID] = "open"
           nb == [b EXCEPT !.todo = @ \ {sessionID},
                           !.failed = IF ~written THEN sessionID ELSE 0]
       IN /\ received' = IF written
                         THEN [received EXCEPT ![sessionID] = Append(@, b.msg)]
                         ELSE received
          /\ listeners' = [listeners EXCEPT ![l] = FinishIteration(@, nb)]
    /\ EndWrite(<<"BroadcastPublicationMessage", l>>, sessionID)
    /\ UNCHANGED <<authVars, catalogVars, engineVars, connState, nextSession, identities, zombie, disconnect, system, dbVars, main,
                   startListeners, landlordQueue, landlordListening, reload, retry>>

\* An iteration of the loop that writes nothing: the session has no identity or
\* no access.
BroadcastPublicationMessage_skip(l, sessionID) ==
    /\ l \in DOMAIN listeners
    /\ listeners[l].pc = "send"
    /\ sessionID \in listeners[l].b.todo
    /\ ~(/\ sessionID \in DOMAIN listeners[l].b.authSessions
         /\ canAccessTenant(listeners[l].b.authSessions[sessionID], listeners[l].b.msg.tenant_name))
    /\ BroadcastPublicationMessage_send(l, sessionID)

\* The failed session is deleted from both maps in one Lock/Unlock.
BroadcastPublicationMessage_remove(l) ==
    /\ l \in DOMAIN listeners
    /\ listeners[l].pc = "remove"
    /\ mutex = "free"
    /\ sessions' = Remove(sessions, listeners[l].b.failed)
    /\ authenticatedSessions' = Remove(authenticatedSessions, listeners[l].b.failed)
    /\ listeners' = [listeners EXCEPT ![l] = FinishIteration(@, [@.b EXCEPT !.failed = 0])]
    /\ UNCHANGED <<authVars, catalogVars, landlordDB, tenantDBs, mutex, sessionVars, dbVars, main, startListeners,
                   landlordQueue, landlordListening, reload, retry>>

\* ------------------------------------------------------------ tenant registry
sessionSide == <<sessions, authenticatedSessions, sessionVars>>

\* Faulty variant: the result of db.Ping is ignored.
connectToTenant_ping_openOnly(database, openOk) == openOk

\* connectToTenant up to the liveness ping: sql.Open may reject the connection
\* string, db.Ping succeeds when the database exists and accepts connections.
connectToTenant_ping(database, openOk) == openOk /\ dbUp[database]

\* The *sql.DB that connectToTenant opened, with the outcome of its db.Ping.
OpenedHandle(t, database, pinged) ==
    [tenant |-> t, database |-> database, pinged |-> pinged, open |-> TRUE]

\* Faulty variant: the pool map is rebuilt with the new entry only.
connectToTenant_install_only(pool, t, h) == Put(EmptyMap, t, h)

\* connectToTenant after the ping: e.tenantDBs[tenant.Name] = db under the lock.
connectToTenant_install(pool, t, h) == Put(pool, t, h)

\* ---- the environment: the landlord's tenants table and the tenant databases
Notify(q, operation, t, database) ==
    IF landlordListening
    THEN Append(q, [operation |-> operation, name |-> t, database |-> database,
                    new_data |-> operation # "DELETE", extra |-> "json"])
    ELSE q

InsertTenant(t) ==
    /\ events < MaxTenantEvents
    /\ t \notin DOMAIN tenantsTable
    /\ tenantsTable' = Put(tenantsTable, t, DatabaseOf(t))
    /\ landlordQueue' = Notify(landlordQueue, "INSERT", t, DatabaseOf(t))
    /\ events' = events + 1
    /\ UNCHANGED <<authVars, catalogVars, engineVars, sessionVars, dbUp, triggers, emitted, handles, main, startListeners,
                   landlordListening, reload, retry, listeners>>

\* A row without a database is inserted: the payload's new_data has database null,
\* and the tenants queries (database IS NOT NULL) do not see the row.
InsertTenantWithoutDatabase(t) ==
    /\ events < MaxTenantEvents
    /\ t \notin DOMAIN tenantsTable
    /\ landlordQueue' = Notify(landlordQueue, "INSERT", t, "")
    /\ events' = events + 1
    /\ UNCHANGED <<authVars, catalogVars, engineVars, sessionVars, tenantsTable, dbUp, triggers, emitted, handles, main,
                   startListeners, landlordListening, reload, retry, listeners>>

\* A tenant_changes notification sent by hand whose payload has the operation
\* INSERT and no new_data.
NotifyInsertWithoutNewData ==
    /\ events < MaxTenantEvents
    /\ landlordQueue' = IF landlordListening
                        THEN Append(landlordQueue, [operation |-> "INSERT", name |-> "", database |-> "",
                                                    new_data |-> FALSE, extra |-> "json"])
                        ELSE landlordQueue
    /\ events' = events + 1
    /\ UNCHANGED <<authVars, catalogVars, engineVars, sessionVars, tenantsTable, dbUp, triggers, emitted, handles, main,
                   startListeners, landlordListening, reload, retry, listeners>>

\* The database column of a tenant's row is changed to another database.
UpdateTenantDatabase(t) ==
    /\ events < MaxTenantEvents
    /\ t \in DOMAIN tenantsTable
    /\ tenantsTable[t] = DatabaseOf(t)
    /\ tenantsTable' = [tenantsTable EXCEPT ![t] = MovedDatabaseOf(t)]
    /\ landlordQueue' = Notify(landlordQueue, "UPDATE", t, MovedDatabaseOf(t))
    /\ events' = events + 1
    /\ UNCHANGED <<authVars, catalogVars, engineVars, sessionVars, dbUp, triggers, emitted, handles, main,
                   startListeners, landlordListening, reload, retry, listeners>>

\* A notification on tenant_changes whose payload is not the trigger's: extra is
\* "malformed" for text that does not parse, "" for no payload at all.
NotifyUnparsed(extra) ==
    /\ events < MaxTenantEvents
    /\ landlordQueue' = IF landlordListening
                        THEN Append(landlordQueue, [operation |-> "", name |-> "", database |-> "",
                                                    new_data |-> FALSE, extra |-> extra])
                        ELSE landlordQueue
    /\ events' = events + 1
    /\ UNCHANGED <<authVars, catalogVars, engineVars, sessionVars, tenantsTable, dbUp, triggers, emitted, handles, main,
                   startListeners, landlordListening, reload, retry, listeners>>

\* The self-test notifications: CONNECTION_TEST sent by the landlord listener
\* after LISTEN, MANUAL_TEST by TestTenantNotification.
SelfTestMarkers == {"CONNECTION_TEST", "MANUAL_TEST"}

TestTenantNotification(operation) ==
    /\ events < MaxTenantEvents
    /\ landlordDB # "nil"
    /\ landlordQueue' = IF landlordListening
                        THEN Append(landlordQueue, [operation |-> operation, name |-> "", database |-> "",
                                                    new_data |-> FALSE, extra |-> "json"])
                        ELSE landlordQueue
    /\ events' = events + 1
    /\ UNCHANGED <<authVars, catalogVars, engineVars, sessionVars, tenantsTable, dbUp, triggers, emitted, handles, main,
                   startListeners, landlordListening, reload, retry, listeners>>

UpdateTenant(t) ==
    /\ events < MaxTenantEvents
    /\ t \in DOMAIN tenantsTable
    /\ landlordQueue' = Notify(landlordQueue, "UPDATE", t, tenantsTable[t])
    /\ events' = events + 1
    /\ UNCHANGED <<authVars, catalogVars, engineVars, sessionVars, tenantsTable, dbUp, triggers, emitted, handles, main,
                   startListeners, landlordListening, reload, retry, listeners>>

DeleteTenant(t) ==
    /\ events < MaxTenantEvents
    /\ t \in DOMAIN tenantsTable
    /\ tenantsTable' = Remove(tenantsTable, t)
    /\ landlordQueue' = Notify(landlordQueue, "DELETE", t, tenantsTable[t])
    /\ events' = events + 1
    /\ UNCHANGED <<authVars, catalogVars, engineVars, sessionVars, dbUp, triggers, emitted, handles, main, startListeners,
                   landlordListening, reload, retry, listeners>>

\* A tenant database is created or comes back, or goes away.
DatabaseUp(d) ==
    /\ ~dbUp[d]
    /\ dbUp' = [dbUp EXCEPT ![d] = TRUE]
    /\ UNCHANGED <<authVars, catalogVars, engineVars, sessionVars, tenantsTable, triggers, emitted, events, handles, taskVars>>

DatabaseDown(d) ==
    /\ dbUp[d]
    /\ dbUp' = [dbUp EXCEPT ![d] = FALSE]
    /\ UNCHANGED <<authVars, catalogVars, engineVars, sessionVars, tenantsTable, triggers, emitted, events, handles, taskVars>>

\* Faulty variant: an error ends the loop.
RemainingAfterError_none(todo, t) == {}

\* The tenants still to visit after connectToTenant returned an error for t: the
\* loops of loadTenantDatabases and reloadTenantDatabases log and continue.
RemainingAfterError(todo, t) == todo \ {t}

\* ---- main
\* connectToLandlord: on failure main logs and goes on without tenants.
main_connectToLandlord(ok) ==
    /\ main = "start"
    /\ landlordDB' = IF ok THEN "connected" ELSE "nil"
    /\ main' = IF ok THEN "load" ELSE "spawn"
    /\ UNCHANGED <<authVars, catalogVars, tenantDBs, sessionSide, mutex, dbVars, startListeners, landlordQueue,
                   landlordListening, reload, retry, listeners>>

\* loadTenantDatabases: the tenants query.
loadTenantDatabases_query ==
    /\ main = "load"
    /\ reload["main"].pc = "idle"
    /\ reload' = IF tenantsTable = EmptyMap THEN reload
                 ELSE [reload EXCEPT !["main"] = [@ EXCEPT !.pc = "loop", !.rows = tenantsTable,
                                                             !.todo = DOMAIN tenantsTable]]
    /\ main' = IF tenantsTable = EmptyMap THEN "spawn" ELSE "load"
    /\ UNCHANGED <<authVars, catalogVars, engineVars, sessionVars, dbVars, startListeners, landlordQueue,
                   landlordListening, retry, listeners>>

\* One iteration of loadTenantDatabases: connectToTenant, a failure is logged and
\* the loop continues.
loadTenantDatabases_connect(t, openOk) ==
    /\ main = "load"
    /\ reload["main"].pc = "loop"
    /\ t \in reload["main"].todo
    /\ LET database == reload["main"].rows[t]
           ok == connectToTenant_ping(database, openOk)
           todo == IF ok THEN reload["main"].todo \ {t} ELSE RemainingAfterError(reload["main"].todo, t)
       IN /\ ok => Len(handles) < MaxHandles
          /\ handles' = IF ok THEN Append(handles, OpenedHandle(t, database, dbUp[database])) ELSE handles
          /\ tenantDBs' = IF ok THEN connectToTenant_install(tenantDBs, t, Len(handles) + 1)
                          ELSE tenantDBs
          /\ reload' = [reload EXCEPT !["main"] =
                          IF todo = {} THEN IdleReload
                          ELSE IF ok THEN [@ EXCEPT !.todo = todo, !.added = @ \cup {t}]
                          ELSE [@ EXCEPT !.todo = todo, !.failed = @ \cup {t}]]
          /\ main' = IF todo = {} THEN "spawn" ELSE "load"
    /\ UNCHANGED <<authVars, catalogVars, landlordDB, sessionSide, mutex, tenantsTable, dbUp, triggers, emitted, events,
                   startListeners, landlordQueue, landlordListening, retry, listeners>>

\* The rest of main: the goroutines it starts, then the HTTP server.
main_spawn ==
    /\ main = "spawn"
    /\ main' = "serving"
    /\ startListeners' = IF landlordDB # "nil" /\ tenantDBs # EmptyMap
                         THEN [IdleStartListeners EXCEPT !.pc = "snapshot"]
                         ELSE startListeners
    /\ UNCHANGED <<authVars, catalogVars, engineVars, sessionVars, dbVars, landlordQueue, landlordListening, reload,
                   retry, listeners>>

\* listenToLandlordTenantChanges up to listener.Listen("tenant_changes").
listenToLandlordTenantChanges_listen ==
    /\ main = "serving"
    /\ landlordDB # "nil"
    /\ ~landlordListening
    /\ landlordListening' = TRUE
    /\ UNCHANGED <<authVars, catalogVars, engineVars, sessionVars, dbVars, main, startListeners, landlordQueue, reload,
                   retry, listeners>>

\* ---- the health endpoint
IsLandlordConnected == landlordDB # "nil"

\* Faulty variant: the status does not look at the landlord connection.
GetHealth_alwaysHealthy == [status |-> "healthy", httpStatus |-> 200]

\* GetHealth: the status and HTTP status of the answer.
GetHealth ==
    IF ~IsLandlordConnected
    THEN [status |-> "degraded", httpStatus |-> 503]
    ELSE [status |-> "healthy", httpStatus |-> 200]

\* ---- startPublicationListeners
startPublicationListeners_snapshot ==
    /\ startListeners.pc = "snapshot"
    /\ mutex = "free"
    /\ startListeners' = [startListeners EXCEPT !.pc = "query", !.tenantDBs = DOMAIN tenantDBs]
    /\ UNCHANGED <<authVars, catalogVars, engineVars, sessionVars, dbVars, main, landlordQueue, landlordListening,
                   reload, retry, listeners>>

startPublicationListeners_query ==
    /\ startListeners.pc = "query"
    /\ startListeners' = IF tenantsTable = EmptyMap THEN IdleStartListeners
                         ELSE [startListeners EXCEPT !.pc = "rows", !.rows = tenantsTable,
                                                     !.todo = DOMAIN tenantsTable]
    /\ UNCHANGED <<authVars, catalogVars, engineVars, sessionVars, dbVars, main, landlordQueue, landlordListening,
                   reload, retry, listeners>>

\* One row of the result: a listener is started when the name is in the copy.
startPublicationListeners_row(tenantName) ==
    /\ startListeners.pc = "rows"
    /\ tenantName \in startListeners.todo
    /\ LET exists == tenantName \in startListeners.tenantDBs
           todo == startListeners.todo \ {tenantName}
       IN /\ exists => CanSpawnListener
          /\ listeners' = IF exists
                          THEN SpawnListener(listeners, tenantName, startListeners.rows[tenantName])
                          ELSE listeners
          /\ startListeners' = IF todo = {} THEN IdleStartListeners
                               ELSE [startListeners EXCEPT !.todo = todo]
    /\ UNCHANGED <<authVars, catalogVars, engineVars, sessionVars, dbVars, main, landlordQueue, landlordListening,
                   reload, retry>>

\* ---- reloadTenantDatabases, called by the landlord listener or by ReloadTenants
\* ReloadTenants: the control plane's forced reconcile.
ReloadTenants ==
    /\ main = "serving"
    /\ landlordDB # "nil"
    /\ reload["api"].pc = "idle"
    /\ reload' = [reload EXCEPT !["api"].pc = "query"]
    /\ UNCHANGED <<authVars, catalogVars, engineVars, sessionVars, dbVars, main, startListeners, landlordQueue,
                   landlordListening, retry, listeners>>

\* The tenants query.
reloadTenantDatabases_query(c) ==
    /\ c # "main"
    /\ reload[c].pc = "query"
    /\ reload' = [reload EXCEPT ![c].pc = "snapshot", ![c].rows = tenantsTable]
    /\ UNCHANGED <<authVars, catalogVars, engineVars, sessionVars, dbVars, main, startListeners, landlordQueue,
                   landlordListening, retry, listeners>>

\* The names already in the pool map, copied under RLock.
reloadTenantDatabases_snapshot(c) ==
    /\ c # "main"
    /\ reload[c].pc = "snapshot"
    /\ mutex = "free"
    /\ LET todo == DOMAIN reload[c].rows \ DOMAIN tenantDBs
       IN reload' = [reload EXCEPT ![c] = IF todo = {} THEN IdleReload
                                          ELSE [@ EXCEPT !.pc = "loop",
                                                         !.existingTenants = DOMAIN tenantDBs,
                                                         !.newTenantsCount = 0,
                                                         !.todo = todo]]
    /\ UNCHANGED <<authVars, catalogVars, engineVars, sessionVars, dbVars, main, startListeners, landlordQueue,
                   landlordListening, retry, listeners>>

\* Faulty variant: every tenant tried is counted.
newTenantsCount_next_always(n, ok) == n + 1

\* newTenantsCount++ after a successful connectToTenant; a failure continues.
newTenantsCount_next(n, ok) == IF ok THEN n + 1 ELSE n

\* One new tenant of the loop: connectToTenant up to the ping.
reloadTenantDatabases_connect(c, t, openOk) ==
    /\ c # "main"
    /\ reload[c].pc = "loop"
    /\ t \in reload[c].todo
    /\ t \notin reload[c].existingTenants
    /\ LET database == reload[c].rows[t]
           ok == connectToTenant_ping(database, openOk)
           todo == IF ok THEN reload[c].todo \ {t} ELSE RemainingAfterError(reload[c].todo, t)
       IN /\ ok => Len(handles) < MaxHandles
          /\ handles' = IF ok THEN Append(handles, OpenedHandle(t, database, dbUp[database])) ELSE handles
          /\ reload' = [reload EXCEPT ![c] =
                          IF ok THEN [@ EXCEPT !.pc = "install", !.todo = todo, !.cur = t,
                                               !.h = Len(handles) + 1]
                          ELSE IF todo = {}
                          THEN [IdleReload EXCEPT !.newTenantsCount = newTenantsCount_next(reload[c].newTenantsCount, FALSE)]
                          ELSE [@ EXCEPT !.todo = todo, !.failed = @ \cup {t},
                                         !.newTenantsCount = newTenantsCount_next(@, FALSE)]]
    /\ UNCHANGED <<authVars, catalogVars, engineVars, sessionVars, tenantsTable, dbUp, triggers, emitted, events, main,
                   startListeners, landlordQueue, landlordListening, retry, listeners>>

\* connectToTenant installs the pool under the lock and returns nil; the loop
\* starts the tenant's listener.
reloadTenantDatabases_install(c) ==
    /\ c # "main"
    /\ reload[c].pc = "install"
    /\ mutex = "free"
    /\ CanSpawnListener
    /\ tenantDBs' = connectToTenant_install(tenantDBs, reload[c].cur, reload[c].h)
    /\ listeners' = SpawnListener(listeners, reload[c].cur, reload[c].rows[reload[c].cur])
    /\ reload' = [reload EXCEPT ![c] = IF @.todo = {}
                                       THEN [IdleReload EXCEPT !.newTenantsCount = newTenantsCount_next(reload[c].newTenantsCount, TRUE)]
                                       ELSE [@ EXCEPT !.pc = "loop", !.cur = "", !.h = 0,
                                                      !.added = @ \cup {reload[c].cur},
                                                      !.newTenantsCount = newTenantsCount_next(@, TRUE)]]
    /\ UNCHANGED <<authVars, catalogVars, landlordDB, sessionSide, mutex, dbVars, main, startListeners, landlordQueue,
                   landlordListening, retry>>

\* ---- connectToTenantWithRetry
CanSpawnRetry == DOMAIN retry # RetryIds

NewRetry(t, database) == [tenant |-> t, database |-> database, attempt |-> 1, pc |-> "check",
                          h |-> 0, calls |-> 0]

\* The check at the top of each attempt, under RLock.
connectToTenantWithRetry_check(r) ==
    /\ r \in DOMAIN retry
    /\ retry[r].pc = "check"
    /\ mutex = "free"
    /\ LET alreadyConnected == retry[r].tenant \in DOMAIN tenantDBs
       IN retry' = IF alreadyConnected THEN Remove(retry, r)
                   ELSE [retry EXCEPT ![r].pc = "connect"]
    /\ UNCHANGED <<authVars, catalogVars, engineVars, sessionVars, dbVars, main, startListeners, landlordQueue,
                   landlordListening, reload, listeners>>

\* Faulty variant: a failed attempt always goes round the loop again.
AfterFailedAttempt_unbounded(rt) == "retry"

\* What a failed attempt leads to: give up after the last one, otherwise sleep and
\* go round the loop (attempt++).
AfterFailedAttempt(rt) ==
    IF rt.attempt = maxRetries THEN "return"
    ELSE IF rt.attempt + 1 <= maxRetries THEN "retry" ELSE "return"

\* The attempt: connectToTenant up to the ping.
connectToTenantWithRetry_connect(r, openOk) ==
    /\ r \in DOMAIN retry
    /\ retry[r].pc = "connect"
    /\ LET ok == connectToTenant_ping(retry[r].database, openOk)
           called == [retry[r] EXCEPT !.calls = @ + 1]
       IN /\ ok => Len(handles) < MaxHandles
          /\ handles' = IF ok THEN Append(handles, OpenedHandle(retry[r].tenant, retry[r].database,
                                                                 dbUp[retry[r].database]))
                        ELSE handles
          /\ retry' = IF ok
                      THEN [retry EXCEPT ![r] = [called EXCEPT !.pc = "install", !.h = Len(handles) + 1]]
                      ELSE IF AfterFailedAttempt(called) = "return" THEN Remove(retry, r)
                      ELSE [retry EXCEPT ![r] = [called EXCEPT !.pc = "check", !.attempt = @ + 1]]
    /\ UNCHANGED <<authVars, catalogVars, engineVars, sessionVars, tenantsTable, dbUp, triggers, emitted, events, main,
                   startListeners, landlordQueue, landlordListening, reload, listeners>>

\* connectToTenant installs the pool under the lock; the retry starts the
\* tenant's listener and returns.
connectToTenantWithRetry_install(r) ==
    /\ r \in DOMAIN retry
    /\ retry[r].pc = "install"
    /\ mutex = "free"
    /\ CanSpawnListener
    /\ tenantDBs' = connectToTenant_install(tenantDBs, retry[r].tenant, retry[r].h)
    /\ listeners' = SpawnListener(listeners, retry[r].tenant, retry[r].database)
    /\ retry' = Remove(retry, r)
    /\ UNCHANGED <<authVars, catalogVars, landlordDB, sessionSide, mutex, dbVars, main, startListeners, landlordQueue,
                   landlordListening, reload>>

\* ---- handleTenantChangeNotification, one notification of the landlord's loop
LandlordReady == landlordListening /\ landlordQueue # <<>> /\ reload["landlord"].pc = "idle"

\* Faulty variant: the database name is not looked at.
handleTenantChangeNotification_INSERT_cond_anyDatabase(payload) == payload.new_data

\* payload.NewData != nil && payload.NewData.Database != ""
handleTenantChangeNotification_INSERT_cond(payload) == payload.new_data /\ payload.database # ""

\* INSERT with new_data and a database name: go connectToTenantWithRetry.
handleTenantChangeNotification_INSERT ==
    /\ LandlordReady
    /\ Head(landlordQueue).operation = "INSERT"
    /\ LET NewData == Head(landlordQueue)
       IN IF handleTenantChangeNotification_INSERT_cond(NewData)
          THEN /\ CanSpawnRetry
               /\ retry' = Put(retry, Min(RetryIds \ DOMAIN retry), NewRetry(NewData.name, NewData.database))
          ELSE retry' = retry
    /\ landlordQueue' = Tail(landlordQueue)
    /\ UNCHANGED <<authVars, catalogVars, engineVars, sessionVars, dbVars, main, startListeners, landlordListening,
                   reload, listeners>>

\* UPDATE with new_data: a full reloadTenantDatabases, run by the landlord's loop.
handleTenantChangeNotification_UPDATE ==
    /\ LandlordReady
    /\ Head(landlordQueue).operation = "UPDATE"
    /\ reload' = [reload EXCEPT !["landlord"].pc = "query"]
    /\ landlordQueue' = Tail(landlordQueue)
    /\ UNCHANGED <<authVars, catalogVars, engineVars, sessionVars, dbVars, main, startListeners, landlordListening,
                   retry, listeners>>

\* Faulty variant: an unparsable payload is dropped.
handleTenantChangeNotification_unparsed_dropped ==
    /\ LandlordReady
    /\ Head(landlordQueue).extra \in {"", "malformed"}
    /\ landlordQueue' = Tail(landlordQueue)
    /\ UNCHANGED <<authVars, catalogVars, engineVars, sessionVars, dbVars, main, startListeners, landlordListening,
                   reload, retry, listeners>>

\* A payload that is empty or does not parse: the fallback reloadTenantDatabases.
handleTenantChangeNotification_unparsed ==
    /\ LandlordReady
    /\ Head(landlordQueue).extra \in {"", "malformed"}
    /\ reload' = [reload EXCEPT !["landlord"].pc = "query"]
    /\ landlordQueue' = Tail(landlordQueue)
    /\ UNCHANGED <<authVars, catalogVars, engineVars, sessionVars, dbVars, main, startListeners, landlordListening,
                   retry, listeners>>

\* Faulty variant: a self-test notification is answered with a reload.
handleTenantChangeNotification_selfTest_reloads ==
    /\ LandlordReady
    /\ Head(landlordQueue).extra = "json"
    /\ Head(landlordQueue).operation \in SelfTestMarkers
    /\ reload' = [reload EXCEPT !["landlord"].pc = "query"]
    /\ landlordQueue' = Tail(landlordQueue)
    /\ UNCHANGED <<authVars, catalogVars, engineVars, sessionVars, dbVars, main, startListeners, landlordListening,
                   retry, listeners>>

\* CONNECTION_TEST and MANUAL_TEST: logged, nothing else.
handleTenantChangeNotification_selfTest ==
    /\ LandlordReady
    /\ Head(landlordQueue).extra = "json"
    /\ Head(landlordQueue).operation \in SelfTestMarkers
    /\ landlordQueue' = Tail(landlordQueue)
    /\ UNCHANGED <<authVars, catalogVars, engineVars, sessionVars, dbVars, main, startListeners, landlordListening,
                   reload, retry, listeners>>

\* Faulty variant: the entry is deleted but its pool is left open.
handleTenantChangeNotification_DELETE_noClose ==
    /\ LandlordReady
    /\ Head(landlordQueue).operation = "DELETE"
    /\ mutex = "free"
    /\ LET OldData == Head(landlordQueue)
           exists == OldData.name \in DOMAIN tenantDBs
       IN tenantDBs' = IF exists THEN Remove(tenantDBs, OldData.name) ELSE tenantDBs
    /\ landlordQueue' = Tail(landlordQueue)
    /\ UNCHANGED <<authVars, catalogVars, landlordDB, sessionSide, mutex, dbVars, main, startListeners, landlordListening,
                   reload, retry, listeners>>

\* DELETE with old_data: under the lock, close and delete the tenant's pool if the
\* name is in the map.
handleTenantChangeNotification_DELETE ==
    /\ LandlordReady
    /\ Head(landlordQueue).operation = "DELETE"
    /\ mutex = "free"
    /\ LET OldData == Head(landlordQueue)
           exists == OldData.name \in DOMAIN tenantDBs
       IN /\ handles' = IF exists THEN [handles EXCEPT ![tenantDBs[OldData.name]].open = FALSE]
                        ELSE handles
          /\ tenantDBs' = IF exists THEN Remove(tenantDBs, OldData.name) ELSE tenantDBs
    /\ landlordQueue' = Tail(landlordQueue)
    /\ UNCHANGED <<authVars, catalogVars, landlordDB, sessionSide, mutex, tenantsTable, dbUp, triggers, emitted, events,
                   main, startListeners, landlordListening, reload, retry, listeners>>

\* ---- closeDatabases
\* Faulty variant: an error of Close ends the loop over the pool map.
closeDatabases_returnsOn_anyError(closeOk) == ~closeOk

\* Whether closeDatabases returns after db.Close() answered: the error is logged
\* and the loop goes on.
closeDatabases_returnsOn(closeOk) == FALSE

\* The pool entries closeDatabases has still to close.
closeDatabases_todo == {t \in DOMAIN tenantDBs : handles[tenantDBs[t]].open}

\* closeDatabases takes the write lock and keeps it (defer Unlock) to the end.
closeDatabases_lock ==
    /\ main = "serving"
    /\ landlordDB # "closed"
    /\ mutex = "free"
    /\ mutex' = "closeDatabases"
    /\ UNCHANGED <<authVars, catalogVars, landlordDB, tenantDBs, sessions, authenticatedSessions, sessionVars,
                   dbVars, taskVars>>

\* One iteration of the loop over e.tenantDBs: db.Close(), which closes the handle
\* whether or not it reports an error.
closeDatabases_tenant(t, closeOk) ==
    /\ mutex = "closeDatabases"
    /\ t \in closeDatabases_todo
    /\ handles' = [handles EXCEPT ![tenantDBs[t]].open = FALSE]
    /\ mutex' = IF closeDatabases_returnsOn(closeOk) THEN "free" ELSE mutex
    /\ UNCHANGED <<authVars, catalogVars, landlordDB, tenantDBs, sessions, authenticatedSessions, sessionVars,
                   tenantsTable, dbUp, triggers, emitted, events, taskVars>>

\* After the loop: e.landlordDB.Close() when the landlord handle is not nil, then
\* the deferred Unlock.
closeDatabases_landlord ==
    /\ mutex = "closeDatabases"
    /\ closeDatabases_todo = {}
    /\ landlordDB' = IF landlordDB = "nil" THEN "nil" ELSE "closed"
    /\ mutex' = "free"
    /\ UNCHANGED <<authVars, catalogVars, tenantDBs, sessions, authenticatedSessions, sessionVars,
                   dbVars, taskVars>>

\* ------------------------------------------------------------- specifications
\* No authentication has been made and no request refused.
NoAuth == [outcome |-> "none", at |-> 0, until |-> 0]

AuthIdle == tokenCache = EmptyMap /\ now = 0 /\ lastAuth = NoAuth /\ refused = ""

\* No channel discovery is under observation.
NoDiscovery == [done |-> FALSE, channels |-> {}]

CatalogIdle == pg_trigger = {} /\ discovered = NoDiscovery

\* The engine after construction in main: empty maps, nothing started.
BaseInit ==
    /\ landlordDB = "nil"
    /\ tenantDBs = EmptyMap
    /\ sessions = EmptyMap
    /\ authenticatedSessions = EmptyMap
    /\ mutex = "free"
    /\ connState = [s \in SessionIds |-> "none"]
    /\ nextSession = 1
    /\ identities = [s \in SessionIds |-> NoIdentity]
    /\ received = [s \in SessionIds |-> <<>>]
    /\ zombie = IdleZombie
    /\ disconnect = IdleDisconnect
    /\ system = IdleSystem
    /\ writers = NoWriters
    /\ emitted = [t \in Tenants |-> 0]
    /\ events = 0
    /\ handles = <<>>
    /\ main = "start"
    /\ startListeners = IdleStartListeners
    /\ landlordQueue = <<>>
    /\ landlordListening = FALSE
    /\ reload = [c \in ReloadCallers |-> IdleReload]
    /\ retry = EmptyMap
    /\ listeners = EmptyMap

\* The engine serving: landlord connected and listened to, no session yet, and for
\* every tenant of ts a row, a reachable database, a pool and, when the tenant
\* has change triggers, a listener in its event loop.
Serving(ts, trig) ==
    LET order == [t \in Tenants |-> IF t \in ts /\ (t = "A" \/ "A" \notin ts) THEN 1 ELSE 2]
        connected == {t \in ts : trig[t] # {}}
    IN
    /\ landlordDB = "connected"
    /\ tenantDBs = [t \in ts |-> order[t]]
    /\ sessions = EmptyMap
    /\ authenticatedSessions = EmptyMap
    /\ mutex = "free"
    /\ connState = [s \in SessionIds |-> "none"]
    /\ nextSession = 1
    /\ identities = [s \in SessionIds |-> NoIdentity]
    /\ received = [s \in SessionIds |-> <<>>]
    /\ zombie = IdleZombie
    /\ disconnect = IdleDisconnect
    /\ system = IdleSystem
    /\ writers = NoWriters
    /\ tenantsTable = [t \in ts |-> DatabaseOf(t)]
    /\ triggers = trig
    /\ emitted = [t \in Tenants |-> 0]
    /\ events = 0
    /\ handles = [h \in 1..Cardinality(ts) |->
                    LET t == CHOOSE x \in ts : order[x] = h IN OpenedHandle(t, DatabaseOf(t), TRUE)]
    /\ main = "serving"
    /\ startListeners = IdleStartListeners
    /\ landlordQueue = <<>>
    /\ landlordListening = TRUE
    /\ reload = [c \in ReloadCallers |-> IdleReload]
    /\ retry = EmptyMap
    /\ listeners = [l \in {order[t] : t \in connected} |->
                      LET t == CHOOSE x \in connected : order[x] = l
                      IN [NewListener(t, DatabaseOf(t))
                            EXCEPT !.pc = "loop", !.db = l, !.channels = trig[t]]]

AllUp == [d \in Databases |-> TRUE]

\* ---- sessions and broadcasts against two connected tenants
BroadcastInit ==
    Serving(Tenants, [t \in Tenants |-> Tables]) /\ dbUp = AllUp /\ AuthIdle /\ CatalogIdle

BroadcastNext ==
    \/ \E t \in Tenants : websocketHandler(t)
    \/ \E s \in SessionIds : ClientDrop(s)
    \/ \E s \in SessionIds : cleanupSession(s)
    \/ \E t \in Tenants, tb \in Tables : EmitChange(t, tb)
    \/ \E l \in ListenerIds : handlePublicationNotification(l)
    \/ \E l \in ListenerIds, s \in SessionIds : BroadcastPublicationMessage_send(l, s)
    \/ \E l \in ListenerIds : BroadcastPublicationMessage_remove(l)

SpecBroadcast == BroadcastInit /\ [][BroadcastNext]_vars

\* ---- every operation on the session registry; only tenant A has change
\* triggers, and its database emits one notification less than MaxNotifications
RegistryInit ==
    /\ Serving(Tenants, [t \in Tenants |-> IF t = "A" THEN Tables ELSE {}]) /\ dbUp = AllUp
    /\ AuthIdle /\ CatalogIdle

RegistryNext ==
    \/ \E t \in Tenants : websocketHandler(t)
    \/ \E s \in SessionIds : ClientDrop(s)
    \/ \E s \in SessionIds : cleanupSession(s)
    \/ cleanupZombieSessions_lock
    \/ \E s \in SessionIds : cleanupZombieSessions_probe(s)
    \/ cleanupZombieSessions_cleanup
    \/ DisconnectAllSessions_snapshot
    \/ \E s \in SessionIds : DisconnectAllSessions_close(s)
    \/ DisconnectAllSessions_clear
    \/ \E t \in Tenants, tb \in Tables : TotalEmitted + 1 < MaxNotifications /\ EmitChange(t, tb)
    \/ \E l \in ListenerIds : handlePublicationNotification(l)
    \/ \E l \in ListenerIds, s \in SessionIds : BroadcastPublicationMessage_send(l, s)
    \/ \E l \in ListenerIds : BroadcastPublicationMessage_remove(l)

SpecSessions == RegistryInit /\ [][RegistryNext]_vars

\* ---- both broadcasts against sessions that may have gone away; only tenant A
\* has change triggers, and change notifications and system broadcasts
\* together number less than MaxNotifications
FanoutNext ==
    \/ \E t \in Tenants : websocketHandler(t)
    \/ \E s \in SessionIds : ClientDrop(s)
    \/ \E s \in SessionIds : cleanupSession(s)
    \/ \E t \in Tenants, tb \in Tables : TotalEmitted + system.calls + 1 < MaxNotifications /\ EmitChange(t, tb)
    \/ \E l \in ListenerIds : handlePublicationNotification(l)
    \/ \E l \in ListenerIds, s \in SessionIds : BroadcastPublicationMessage_send(l, s)
    \/ \E l \in ListenerIds : BroadcastPublicationMessage_remove(l)
    \/ TotalEmitted + system.calls + 1 < MaxNotifications /\ BroadcastSystemMessage_snapshot
    \/ \E s \in SessionIds : BroadcastSystemMessage_send(s)
    \/ BroadcastSystemMessage_remove

SpecFanout == RegistryInit /\ [][FanoutNext]_vars

\* ---- BroadcastPublicationMessage as a function of the two maps it copies: the
\* maps are drawn from every pair in which the identity map covers a part of the
\* session map, the pairs no handler produces included, so that the branch for a
\* session without identity is entered; no further session registers
SnapshotInputs ==
    {<<sess, ids>> : sess \in UNION {[S -> Tenants] : S \in SUBSET SessionIds},
                     ids \in SUBSET SessionIds}

SnapshotInit ==
    \E in \in SnapshotInputs :
        /\ in[2] \subseteq DOMAIN in[1]
        /\ landlordDB = "connected"
        /\ tenantDBs = [t \in Tenants |-> IF t = "A" THEN 1 ELSE 2]
        /\ sessions = in[1]
        /\ authenticatedSessions = [s \in in[2] |-> [TenantName |-> in[1][s], SessionID |-> s]]
        /\ mutex = "free"
        /\ connState = [s \in SessionIds |-> IF s \in DOMAIN in[1] THEN "open" ELSE "none"]
        /\ nextSession = MaxSessions + 1
        /\ identities = [s \in SessionIds |->
                           IF s \in DOMAIN in[1] THEN [TenantName |-> in[1][s], SessionID |-> s]
                           ELSE NoIdentity]
        /\ received = [s \in SessionIds |-> <<>>]
        /\ zombie = IdleZombie
        /\ disconnect = IdleDisconnect
        /\ system = IdleSystem
    /\ writers = NoWriters
        /\ tenantsTable = [t \in Tenants |-> DatabaseOf(t)]
        /\ triggers = [t \in Tenants |-> IF t = "A" THEN Tables ELSE {}]
        /\ emitted = [t \in Tenants |-> 0]
        /\ events = 0
        /\ handles = [h \in 1..2 |-> OpenedHandle(IF h = 1 THEN "A" ELSE "B",
                                                  DatabaseOf(IF h = 1 THEN "A" ELSE "B"), TRUE)]
        /\ main = "serving"
        /\ startListeners = IdleStartListeners
        /\ landlordQueue = <<>>
        /\ landlordListening = TRUE
        /\ reload = [c \in ReloadCallers |-> IdleReload]
        /\ retry = EmptyMap
        /\ listeners = [l \in {1} |-> [NewListener("A", DatabaseOf("A"))
                                         EXCEPT !.pc = "loop", !.db = 1, !.channels = Tables]]
        /\ dbUp = AllUp
        /\ AuthIdle /\ CatalogIdle

SnapshotNext ==
    \/ \E s \in SessionIds : ClientDrop(s)
    \/ \E s \in SessionIds : cleanupSession(s)
    \/ \E tb \in Tables : EmitChange("A", tb)
    \/ \E l \in ListenerIds : handlePublicationNotification(l)
    \/ \E l \in ListenerIds, s \in SessionIds : BroadcastPublicationMessage_send(l, s)
    \/ \E l \in ListenerIds : BroadcastPublicationMessage_remove(l)

SpecSnapshot == SnapshotInit /\ [][SnapshotNext]_vars

\* ---- the two pumps of every session, with zombie sweeps competing for the lock.
\* Fairness: the write pump's ticker fires and the pump is scheduled; a reader
\* blocked in Lock gets the lock once it is free often enough (sync.RWMutex does
\* not starve a waiting writer); a sweep that has the lock finishes, each of its
\* writes being bounded by writeWait. Nothing obliges a sweep to start.
PumpsNext ==
    \/ \E t \in Tenants : websocketHandler(t)
    \/ \E s \in SessionIds : ClientDrop(s)
    \/ \E s \in SessionIds : WriteBreaks(s)
    \/ \E s \in SessionIds : writePump_pingFailed(s)
    \/ \E s \in SessionIds : cleanupSession(s)
    \/ cleanupZombieSessions_lock
    \/ \E s \in SessionIds : cleanupZombieSessions_probe(s)
    \/ cleanupZombieSessions_cleanup

PumpsFairness ==
    /\ \A s \in SessionIds : WF_vars(writePump_pingFailed(s))
    /\ \A s \in SessionIds : SF_vars(cleanupSession(s))
    /\ WF_vars(\E s \in SessionIds : cleanupZombieSessions_probe(s))
    /\ WF_vars(cleanupZombieSessions_cleanup)

SpecPumps == RegistryInit /\ [][PumpsNext]_vars /\ PumpsFairness

\* ---- the tenant registry and the listeners' life cycle while the engine serves:
\* tenant B connected at startup, tenant A not in the landlord's table yet
TenantInit ==
    /\ Serving({"B"}, [t \in Tenants |-> Tables])
    /\ dbUp \in {[d \in Databases |-> d = DatabaseOf("B") \/ up] : up \in BOOLEAN}
    /\ AuthIdle /\ CatalogIdle

TenantNext ==
    \/ \E t \in Tenants : InsertTenant(t)
    \/ \E t \in Tenants : UpdateTenant(t)
    \/ \E t \in Tenants : DeleteTenant(t)
    \/ \E d \in Databases : DatabaseUp(d)
    \/ \E d \in Databases : DatabaseDown(d)
    \/ \E c \in ReloadCallers : reloadTenantDatabases_query(c)
    \/ \E c \in ReloadCallers : reloadTenantDatabases_snapshot(c)
    \/ \E c \in ReloadCallers, t \in Tenants, openOk \in BOOLEAN : reloadTenantDatabases_connect(c, t, openOk)
    \/ \E c \in ReloadCallers : reloadTenantDatabases_install(c)
    \/ \E r \in RetryIds : connectToTenantWithRetry_check(r)
    \/ \E r \in RetryIds, openOk \in BOOLEAN : connectToTenantWithRetry_connect(r, openOk)
    \/ \E r \in RetryIds : connectToTenantWithRetry_install(r)
    \/ handleTenantChangeNotification_INSERT
    \/ handleTenantChangeNotification_UPDATE
    \/ handleTenantChangeNotification_DELETE
    \/ \E l \in ListenerIds : listenToTenantPublications_lookup(l)
    \/ \E l \in ListenerIds : listenToTenantPublications_discover(l)
    \/ \E l \in ListenerIds : listenToTenantPublications_pingFailed(l)

SpecTenants == TenantInit /\ [][TenantNext]_vars

\* ---- the whole pipeline for tenant A: its row is deleted and inserted again
\* while its database emits changes and clients of A are connected
DeliveryInit ==
    Serving({"A"}, [t \in Tenants |-> Tables]) /\ dbUp = AllUp /\ AuthIdle /\ CatalogIdle

DeliveryNext ==
    \/ InsertTenant("A")
    \/ DeleteTenant("A")
    \/ \E r \in RetryIds : connectToTenantWithRetry_check(r)
    \/ \E r \in RetryIds, openOk \in BOOLEAN : connectToTenantWithRetry_connect(r, openOk)
    \/ \E r \in RetryIds : connectToTenantWithRetry_install(r)
    \/ handleTenantChangeNotification_INSERT
    \/ handleTenantChangeNotification_DELETE
    \/ \E l \in ListenerIds : listenToTenantPublications_lookup(l)
    \/ \E l \in ListenerIds : listenToTenantPublications_discover(l)
    \/ websocketHandler("A")
    \/ \E s \in SessionIds : ClientDrop(s)
    \/ \E s \in SessionIds : cleanupSession(s)
    \/ \E tb \in Tables : EmitChange("A", tb)
    \/ \E l \in ListenerIds : handlePublicationNotification(l)
    \/ \E l \in ListenerIds, s \in SessionIds : BroadcastPublicationMessage_send(l, s)
    \/ \E l \in ListenerIds : BroadcastPublicationMessage_remove(l)

SpecDelivery == DeliveryInit /\ [][DeliveryNext]_vars

\* ---- channel discovery on every catalog made of these triggers
TriggerRows ==
    {[tgname |-> <<"tasks", "_", "changes_trigger">>, tgrelid |-> <<"tasks">>, tgisinternal |-> FALSE],
     [tgname |-> <<"users", "_", "changes_trigger">>, tgrelid |-> <<"users">>, tgisinternal |-> FALSE],
     [tgname |-> <<"roles", "_", "changes_trigger">>, tgrelid |-> <<"roles">>, tgisinternal |-> TRUE],
     [tgname |-> <<"teams", "_", "audit">>, tgrelid |-> <<"teams">>, tgisinternal |-> FALSE],
     [tgname |-> <<"sync", "changes_trigger">>, tgrelid |-> <<"jobs">>, tgisinternal |-> FALSE],
     [tgname |-> <<"x", "_", "changes_trigger", "_", "log", "_", "changes_trigger">>,
      tgrelid |-> <<"x", "_", "changes_trigger", "_", "log">>, tgisinternal |-> FALSE]}

DiscoveryInit ==
    /\ Serving({"A"}, [t \in Tenants |-> Tables]) /\ dbUp = AllUp /\ AuthIdle
    /\ pg_trigger \in SUBSET TriggerRows
    /\ discovered = NoDiscovery

DiscoveryNext == listenToTenantPublications_channels

SpecDiscovery == DiscoveryInit /\ [][DiscoveryNext]_vars

\* ---- authentications of good and bad tokens for two domains as time passes
AuthNext ==
    \/ \E token \in {"token", "other"}, domain \in {"a.example", "b.example"} :
          authenticateTokenForDomain_call(token, domain)
    \/ cleanupExpiredTokens
    \/ Tick

SpecAuth == BroadcastInit /\ [][AuthNext]_vars

\* ---- connection handlers that run concurrently: each is upgraded first and
\* registers later, while sessions drop and the zombie sweep runs
Tokens == {"", "token"}
Domains == {"", "a.example"}

RegisterNext ==
    \/ \E token \in Tokens, domain \in Domains, authOk \in BOOLEAN, upgradeOk \in BOOLEAN :
          websocketHandler_refuse(token, domain, authOk, upgradeOk)
    \/ \E t \in Tenants : websocketHandler_upgrade(t)
    \/ \E s \in SessionIds : websocketHandler_register(s)
    \/ \E s \in SessionIds : ClientDrop(s)
    \/ \E s \in SessionIds : cleanupSession(s)
    \/ cleanupZombieSessions_lock
    \/ \E s \in SessionIds : cleanupZombieSessions_probe(s)
    \/ cleanupZombieSessions_cleanup

SpecRegister == BroadcastInit /\ [][RegisterNext]_vars

\* ---- tenant A after its deletion: its row is deleted, the DELETE notification is
\* handled, and only then does A's database emit changes, with clients of A connected
Deleted(t) ==
    /\ t \notin DOMAIN tenantsTable
    /\ t \notin DOMAIN tenantDBs
    /\ \E h \in DOMAIN handles : handles[h].tenant = t /\ ~handles[h].open

DeletedNext ==
    \/ DeleteTenant("A")
    \/ handleTenantChangeNotification_DELETE
    \/ websocketHandler("A")
    \/ \E s \in SessionIds : ClientDrop(s)
    \/ \E s \in SessionIds : cleanupSession(s)
    \/ \E tb \in Tables : Deleted("A") /\ EmitChange("A", tb)
    \/ \E l \in ListenerIds : handlePublicationNotification(l)
    \/ \E l \in ListenerIds, s \in SessionIds : BroadcastPublicationMessage_send(l, s)
    \/ \E l \in ListenerIds : BroadcastPublicationMessage_remove(l)

SpecDeleted == DeliveryInit /\ [][DeletedNext]_vars

\* ---- the retry tasks under a fair scheduler: a runnable goroutine is eventually
\* run, time.Sleep returns, and connectToTenant's Open and Ping return
connectToTenantWithRetry_step(r) ==
    \/ connectToTenantWithRetry_check(r)
    \/ \E openOk \in BOOLEAN : connectToTenantWithRetry_connect(r, openOk)
    \/ connectToTenantWithRetry_install(r)

RetryNext ==
    \/ \E t \in Tenants : InsertTenant(t)
    \/ \E t \in Tenants : UpdateTenant(t)
    \/ \E t \in Tenants : DeleteTenant(t)
    \/ \E d \in Databases : DatabaseUp(d)
    \/ \E d \in Databases : DatabaseDown(d)
    \/ \E r \in RetryIds : connectToTenantWithRetry_check(r)
    \/ \E r \in RetryIds, openOk \in BOOLEAN : connectToTenantWithRetry_connect(r, openOk)
    \/ \E r \in RetryIds : connectToTenantWithRetry_install(r)
    \/ handleTenantChangeNotification_INSERT
    \/ handleTenantChangeNotification_UPDATE
    \/ handleTenantChangeNotification_DELETE
    \/ \E c \in ReloadCallers : reloadTenantDatabases_query(c)
    \/ \E c \in ReloadCallers : reloadTenantDatabases_snapshot(c)
    \/ \E c \in ReloadCallers, t \in Tenants, openOk \in BOOLEAN : reloadTenantDatabases_connect(c, t, openOk)
    \/ \E c \in ReloadCallers : reloadTenantDatabases_install(c)

SpecRetry ==
    TenantInit /\ [][RetryNext]_vars /\ \A r \in RetryIds : WF_vars(connectToTenantWithRetry_step(r))

\* ---- the process from func main on: the landlord is reachable or not, tenant B
\* has a row or not, any tenant database is up or down; tenant A is inserted later
StartupInit ==
    /\ BaseInit
    /\ tenantsTable \in {[t \in ts |-> DatabaseOf(t)] : ts \in SUBSET {"B"}}
    /\ dbUp \in [Databases -> BOOLEAN]
    /\ triggers = [t \in Tenants |-> Tables]
    /\ AuthIdle /\ CatalogIdle

\* The steps of func main itself.
main_step ==
    \/ \E ok \in BOOLEAN : main_connectToLandlord(ok)
    \/ loadTenantDatabases_query
    \/ \E t \in Tenants, openOk \in BOOLEAN : loadTenantDatabases_connect(t, openOk)
    \/ main_spawn

StartupNext ==
    \/ main_step
    \/ listenToLandlordTenantChanges_listen
    \/ startPublicationListeners_snapshot
    \/ startPublicationListeners_query
    \/ \E t \in Tenants : startPublicationListeners_row(t)
    \/ \E l \in ListenerIds : listenToTenantPublications_lookup(l)
    \/ \E l \in ListenerIds : listenToTenantPublications_discover(l)
    \/ InsertTenant("A")
    \/ handleTenantChangeNotification_INSERT
    \/ \E r \in RetryIds : connectToTenantWithRetry_check(r)
    \/ \E r \in RetryIds, openOk \in BOOLEAN : connectToTenantWithRetry_connect(r, openOk)
    \/ \E r \in RetryIds : connectToTenantWithRetry_install(r)
    \/ ReloadTenants
    \/ \E c \in ReloadCallers : reloadTenantDatabases_query(c)
    \/ \E c \in ReloadCallers : reloadTenantDatabases_snapshot(c)
    \/ \E c \in ReloadCallers, t \in Tenants, openOk \in BOOLEAN : reloadTenantDatabases_connect(c, t, openOk)
    \/ \E c \in ReloadCallers : reloadTenantDatabases_install(c)

\* func main runs on: it is the process's one goroutine at that point.
SpecStartup == StartupInit /\ [][StartupNext]_vars /\ WF_vars(main_step)

\* ---- tenant rows come and go, with and without a database name, while the
\* landlord listener handles the notifications and the connection tasks run
InsertNext ==
    \/ \E t \in Tenants : InsertTenant(t)
    \/ \E t \in Tenants : InsertTenantWithoutDatabase(t)
    \/ NotifyInsertWithoutNewData
    \/ \E t \in Tenants : DeleteTenant(t)
    \/ \E d \in Databases : DatabaseUp(d)
    \/ \E d \in Databases : DatabaseDown(d)
    \/ handleTenantChangeNotification_INSERT
    \/ handleTenantChangeNotification_DELETE
    \/ \E r \in RetryIds : connectToTenantWithRetry_check(r)
    \/ \E r \in RetryIds, openOk \in BOOLEAN : connectToTenantWithRetry_connect(r, openOk)
    \/ \E r \in RetryIds : connectToTenantWithRetry_install(r)
    \/ \E l \in ListenerIds : listenToTenantPublications_lookup(l)
    \/ \E l \in ListenerIds : listenToTenantPublications_discover(l)

SpecInsert == TenantInit /\ [][InsertNext]_vars

\* ---- the reconcile and what leads to it: tenant B connected, tenant A's row
\* arrives, rows are updated, with or without a new database name, and
\* notifications that are unparsable, empty or self-tests come in
ReconcileInit ==
    /\ Serving({"B"}, [t \in Tenants |-> Tables])
    /\ dbUp \in {[d \in AllDatabases |-> d # DatabaseOf("A") \/ up] : up \in BOOLEAN}
    /\ AuthIdle /\ CatalogIdle

ReconcileNext ==
    \/ InsertTenant("A")
    \/ \E t \in Tenants : UpdateTenant(t)
    \/ \E t \in Tenants : UpdateTenantDatabase(t)
    \/ \E extra \in {"", "malformed"} : NotifyUnparsed(extra)
    \/ \E operation \in SelfTestMarkers : TestTenantNotification(operation)
    \/ DatabaseUp(DatabaseOf("A"))
    \/ ReloadTenants
    \/ handleTenantChangeNotification_INSERT
    \/ handleTenantChangeNotification_UPDATE
    \/ handleTenantChangeNotification_unparsed
    \/ handleTenantChangeNotification_selfTest
    \/ \E r \in RetryIds : connectToTenantWithRetry_check(r)
    \/ \E r \in RetryIds, openOk \in BOOLEAN : connectToTenantWithRetry_connect(r, openOk)
    \/ \E r \in RetryIds : connectToTenantWithRetry_install(r)
    \/ \E c \in ReloadCallers : reloadTenantDatabases_query(c)
    \/ \E c \in ReloadCallers : reloadTenantDatabases_snapshot(c)
    \/ \E c \in ReloadCallers, t \in Tenants, openOk \in BOOLEAN : reloadTenantDatabases_connect(c, t, openOk)
    \/ \E c \in ReloadCallers : reloadTenantDatabases_install(c)

SpecReconcile == ReconcileInit /\ [][ReconcileNext]_vars

\* ---- the two loops over the tenants table: loadTenantDatabases in main and
\* reloadTenantDatabases called through ReloadTenants, both tenants having a
\* row, while the tenant databases come and go
LoadInit ==
    /\ BaseInit
    /\ tenantsTable = [t \in Tenants |-> DatabaseOf(t)]
    /\ dbUp \in [Databases -> BOOLEAN]
    /\ triggers = [t \in Tenants |-> Tables]
    /\ AuthIdle /\ CatalogIdle

LoadNext ==
    \/ main_step
    \/ \E d \in Databases : DatabaseUp(d)
    \/ \E d \in Databases : DatabaseDown(d)
    \/ ReloadTenants
    \/ reloadTenantDatabases_query("api")
    \/ reloadTenantDatabases_snapshot("api")
    \/ \E t \in Tenants, openOk \in BOOLEAN : reloadTenantDatabases_connect("api", t, openOk)
    \/ reloadTenantDatabases_install("api")

SpecLoad == LoadInit /\ [][LoadNext]_vars

\* ---- the process from func main on with both tenants in the table and any
\* tenant database up or down, while tenant rows are deleted and the landlord
\* listener handles the DELETE notifications
BootNext ==
    \/ main_step
    \/ listenToLandlordTenantChanges_listen
    \/ startPublicationListeners_snapshot
    \/ startPublicationListeners_query
    \/ \E t \in Tenants : startPublicationListeners_row(t)
    \/ \E l \in ListenerIds : listenToTenantPublications_lookup(l)
    \/ \E l \in ListenerIds : listenToTenantPublications_discover(l)
    \/ \E t \in Tenants : DeleteTenant(t)
    \/ handleTenantChangeNotification_DELETE

SpecBoot == LoadInit /\ [][BootNext]_vars

\* ---- a listener's life: tenant A connected with its listener in the event
\* loop, tenant B, whose database has no change trigger, inserted later
ListenerInit ==
    /\ Serving({"A"}, [t \in Tenants |-> IF t = "A" THEN Tables ELSE {}])
    /\ dbUp = AllUp
    /\ AuthIdle /\ CatalogIdle

ListenerNext ==
    \/ InsertTenant("B")
    \/ DeleteTenant("A")
    \/ \E d \in Databases : DatabaseUp(d)
    \/ \E d \in Databases : DatabaseDown(d)
    \/ handleTenantChangeNotification_INSERT
    \/ handleTenantChangeNotification_DELETE
    \/ \E r \in RetryIds : connectToTenantWithRetry_check(r)
    \/ \E r \in RetryIds, openOk \in BOOLEAN : connectToTenantWithRetry_connect(r, openOk)
    \/ \E r \in RetryIds : connectToTenantWithRetry_install(r)
    \/ \E l \in ListenerIds : listenToTenantPublications_lookup(l)
    \/ \E l \in ListenerIds : listenToTenantPublications_discover(l)
    \/ \E l \in ListenerIds : listenToTenantPublications_ping(l)
    \/ \E l \in ListenerIds : listenToTenantPublications_pingFailed(l)
    \/ \E l \in ListenerIds : listenToTenantPublications_nil(l)
    \/ websocketHandler("A")
    \/ \E tb \in Tables : EmitChange("A", tb)
    \/ \E tb \in Tables, extra \in {"malformed", "nil"} : EmitOther("A", tb, extra)
    \/ \E l \in ListenerIds : handlePublicationNotification(l)
    \/ \E l \in ListenerIds : handlePublicationNotification_malformed(l)
    \/ \E l \in ListenerIds, s \in SessionIds : BroadcastPublicationMessage_send(l, s)

SpecListener == ListenerInit /\ [][ListenerNext]_vars

\* ---- shutdown of the databases while tenants are inserted, connected and
\* deleted: tenant B connected, tenant A not in the landlord's table yet
ShutdownNext ==
    \/ \E t \in Tenants : InsertTenant(t)
    \/ \E t \in Tenants : DeleteTenant(t)
    \/ \E d \in Databases : DatabaseUp(d)
    \/ \E d \in Databases : DatabaseDown(d)
    \/ handleTenantChangeNotification_INSERT
    \/ handleTenantChangeNotification_DELETE
    \/ \E r \in RetryIds : connectToTenantWithRetry_check(r)
    \/ \E r \in RetryIds, openOk \in BOOLEAN : connectToTenantWithRetry_connect(r, openOk)
    \/ \E r \in RetryIds : connectToTenantWithRetry_install(r)
    \/ closeDatabases_lock
    \/ \E t \in Tenants, closeOk \in BOOLEAN : closeDatabases_tenant(t, closeOk)
    \/ closeDatabases_landlord

SpecShutdown == TenantInit /\ [][ShutdownNext]_vars

\* ---- the tasks that write to a session's connection, each write from its call
\* to its return: the write pump's ping, the read pump's echo and the
\* publication broadcast of the session's tenant
WritersNext ==
    \/ \E t \in Tenants : websocketHandler(t)
    \/ \E s \in SessionIds : ClientDrop(s)
    \/ \E s \in SessionIds : cleanupSession(s)
    \/ \E s \in SessionIds : writePump_ping_write(s)
    \/ \E s \in SessionIds : writePump_ping_written(s)
    \/ \E s \in SessionIds : readPump_echo_write(s)
    \/ \E s \in SessionIds : readPump_echo_written(s)
    \/ \E tb \in Tables : TotalEmitted + 1 < MaxNotifications /\ EmitChange("A", tb)
    \/ \E l \in ListenerIds : handlePublicationNotification(l)
    \/ \E l \in ListenerIds, s \in SessionIds : BroadcastPublicationMessage_write(l, s)
    \/ \E l \in ListenerIds, s \in SessionIds : BroadcastPublicationMessage_written(l, s)
    \/ \E l \in ListenerIds, s \in SessionIds : BroadcastPublicationMessage_skip(l, s)
    \/ \E l \in ListenerIds : BroadcastPublicationMessage_remove(l)

SpecWriters == RegistryInit /\ [][WritersNext]_vars

\* ------------------------------------------------------------------ properties
ListenersOf(t) == {l \in DOMAIN listeners : listeners[l].tenant = t}

\* C1: every database message written to a session carries the tenant name of the
\* identity that session authenticated with; a session of another tenant is never
\* written a tenant's message.
C1_TenantIsolation ==
    \A s \in SessionIds : \A i \in DOMAIN received[s] :
        received[s][i].tenant_name = identities[s].TenantName

\* Session 1 of tenant A and session 2 of tenant B were both in the copy of a
\* broadcast of B's message: 2 was written it, 1 was skipped.
C1_Witness ==
    /\ 1 \in DOMAIN sessions /\ connState[1] = "open"
    /\ identities[1].TenantName = "A" /\ identities[2].TenantName = "B"
    /\ received[1] = <<>>
    /\ \E i \in DOMAIN received[2] : received[2][i].tenant_name = "B"

\* C2: whenever the engine lock is not held, the session map and the identity map
\* have the same session ids.
C2_SameIds == mutex = "free" => DOMAIN sessions = DOMAIN authenticatedSessions

\* Session 1 has been unregistered while session 2 is registered in both maps.
C2_Witness ==
    /\ mutex = "free"
    /\ connState[1] \in {"dead", "done"} /\ 1 \notin DOMAIN sessions
    /\ 2 \in DOMAIN sessions /\ 2 \in DOMAIN authenticatedSessions

\* C3: a tenant name is in the pool map exactly when a listener task for that
\* tenant is running or starting.
C3_PoolIffListener == \A t \in Tenants : t \in DOMAIN tenantDBs <=> ListenersOf(t) # {}

\* A listener in its event loop for a tenant whose pool was closed and deleted.
C3_ListenerWithoutPool ==
    \E l \in DOMAIN listeners :
        /\ listeners[l].pc = "loop"
        /\ listeners[l].tenant \notin DOMAIN tenantDBs
        /\ ~handles[listeners[l].db].open

\* C4: at most one listener task per tenant name is alive at any time.
C4_OneListenerPerTenant == \A t \in Tenants : Cardinality(ListenersOf(t)) <= 1

\* Two listeners of one tenant, both in the event loop.
C4_TwoListenersInLoop ==
    \E l1, l2 \in DOMAIN listeners :
        /\ l1 # l2
        /\ listeners[l1].tenant = listeners[l2].tenant
        /\ listeners[l1].pc = "loop" /\ listeners[l2].pc = "loop"

\* C5: a session is written the message of one change notification at most once.
C5_AtMostOnce ==
    \A s \in SessionIds : \A i, j \in DOMAIN received[s] :
        i # j => received[s][i] # received[s][j]

\* C6: a session is written the messages of one tenant in the order in which the
\* tenant's database emitted the notifications.
C6_InOrder ==
    \A s \in SessionIds : \A i, j \in DOMAIN received[s] :
        i < j /\ received[s][i].tenant_name = received[s][j].tenant_name
            => received[s][i].n <= received[s][j].n

\* C7: a retry task calls connectToTenant at most maxRetries times, and every
\* retry task returns, whatever the tenant database does.
C7_RetryTerminates ==
    /\ [](\A r \in DOMAIN retry : retry[r].calls <= maxRetries /\ retry[r].attempt <= maxRetries)
    /\ \A r \in RetryIds : (r \in DOMAIN retry) ~> (r \notin DOMAIN retry)

\* The only tenant change was the insertion of A, its notification was handled,
\* and the retry task has returned without ever getting a connection.
C7_Witness ==
    /\ events = 1 /\ "A" \in DOMAIN tenantsTable
    /\ landlordQueue = <<>> /\ retry = EmptyMap
    /\ "A" \notin DOMAIN tenantDBs /\ Len(handles) = 1

\* C8: a retry task never installs a pool for a tenant that is in the pool map at
\* the moment of the installation.
C8_NoSecondPool ==
    [][\A r \in DOMAIN retry :
          (retry[r].pc = "install" /\ r \notin DOMAIN retry' /\ tenantDBs' # tenantDBs)
              => retry[r].tenant \notin DOMAIN tenantDBs]_vars

\* A retry task holds a fresh connection for a tenant that got a pool after the
\* task's check.
C8_StaleCheck ==
    \E r \in DOMAIN retry : retry[r].pc = "install" /\ retry[r].tenant \in DOMAIN tenantDBs

\* C9: a connectToTenant that fails leaves the pool map as it was, and every
\* entry of the pool map is a connection whose ping succeeded.
C9_OnlyAfterPing ==
    /\ [](\A t \in DOMAIN tenantDBs : handles[tenantDBs[t]].pinged)
    /\ [][\A r \in DOMAIN retry :
             (retry[r].pc = "connect" /\ (r \notin DOMAIN retry' \/ retry'[r].pc = "check"))
                 => tenantDBs' = tenantDBs]_vars
    /\ [][\A c \in ReloadCallers :
             (reload[c].pc = "loop" /\ reload'[c] # reload[c] /\ reload'[c].pc # "install")
                 => tenantDBs' = tenantDBs]_vars

\* A retry task after a failed attempt, its tenant still without a pool.
C9_Witness ==
    \E r \in DOMAIN retry :
        /\ retry[r].pc = "check" /\ retry[r].calls >= 1
        /\ retry[r].tenant \notin DOMAIN tenantDBs

\* C10: the step that consumes a DELETE notification closes the named tenant's
\* pool and deletes its entry, leaves every other entry and pool as they were,
\* and changes nothing when the name is not in the map.
C10_DeleteRemoves ==
    [][(/\ LandlordReady
        /\ Head(landlordQueue).operation = "DELETE"
        /\ Len(landlordQueue') < Len(landlordQueue))
       => LET t == Head(landlordQueue).name
          IN IF t \in DOMAIN tenantDBs
             THEN /\ tenantDBs' = Remove(tenantDBs, t)
                  /\ ~handles'[tenantDBs[t]].open
                  /\ \A h \in DOMAIN handles \ {tenantDBs[t]} : handles'[h] = handles[h]
             ELSE tenantDBs' = tenantDBs /\ handles' = handles]_vars

\* A tenant's pool has been closed and its entry deleted while another tenant
\* still has its open pool.
C10_Witness ==
    \E h \in DOMAIN handles :
        /\ ~handles[h].open
        /\ handles[h].tenant \notin DOMAIN tenantDBs
        /\ \E t \in DOMAIN tenantDBs : handles[tenantDBs[t]].open

\* C11: once a tenant's DELETE notification has been handled, no session is written
\* a message of that tenant for a change its database emits from then on (under
\* SpecDeleted every change is emitted after the deletion).
C11_NoDeliveryAfterDelete ==
    \A t \in Tenants : Deleted(t) =>
        \A s \in SessionIds : \A i \in DOMAIN received[s] : received[s][i].tenant_name # t

\* C12: every session whose registration has completed and whose connection is
\* alive is in the session map and in the identity map with its own tenant and its
\* own identity, however the handlers of other sessions interleave with its own.
C12_NoLostRegistration ==
    \A s \in SessionIds : connState[s] = "open" =>
        /\ s \in DOMAIN sessions /\ s \in DOMAIN authenticatedSessions
        /\ sessions[s] = identities[s].TenantName
        /\ authenticatedSessions[s] = identities[s]
        /\ authenticatedSessions[s].SessionID = s

\* The handler of session 1 was upgraded first and is still before its critical
\* section when session 2, of the other tenant, has registered.
C12_Witness ==
    /\ connState[1] = "upgraded" /\ connState[2] = "open"
    /\ 2 \in DOMAIN sessions /\ 2 \in DOMAIN authenticatedSessions
    /\ sessions[2] # identities[1].TenantName

\* C13: while a zombie sweep runs, the sessions it has marked are sessions of the map
\* whose probe write failed; the step that completes the sweep deletes exactly the
\* marked sessions from both maps and leaves every other entry of both maps as it was.
C13_SweepRemovesZombies ==
    /\ [](mutex = "zombie" =>
            /\ zombie.todo \cup zombie.zombieSessions \subseteq DOMAIN sessions
            /\ \A s \in zombie.zombieSessions : connState[s] # "open")
    /\ [][(zombie.pc = "probe" /\ zombie'.pc = "idle") =>
            /\ DOMAIN sessions' = DOMAIN sessions \ zombie.zombieSessions
            /\ DOMAIN authenticatedSessions' = DOMAIN authenticatedSessions \ zombie.zombieSessions
            /\ \A s \in DOMAIN sessions' :
                  sessions'[s] = sessions[s] /\ authenticatedSessions'[s] = authenticatedSessions[s]]_vars

\* A sweep has probed both registered sessions: the write to session 1 failed, the
\* write to session 2 succeeded, and the sweep is about to complete.
C13_Witness ==
    /\ mutex = "zombie" /\ zombie.todo = {}
    /\ zombie.zombieSessions = {1}
    /\ 2 \in DOMAIN sessions /\ connState[2] = "open"

\* C14: a task that is writing to a websocket or closing a database does not hold
\* the engine lock; for the zombie sweep: it does not hold the lock while it still
\* has sessions to probe.
C14_NoIOUnderLock == zombie.pc = "probe" /\ zombie.todo # {} => mutex # "zombie"

\* The channels of the tables that carry a trigger named <table>_changes_trigger.
ConventionChannels(catalog) ==
    {ChannelName(tr.tgrelid) :
        tr \in {x \in catalog : ~x.tgisinternal
                                  /\ x.tgname = x.tgrelid \o <<"_", "changes_trigger">>}}

\* C15: the listener subscribes to exactly the channels whagons_<table>_changes of
\* the tables with a non-internal trigger named <table>_changes_trigger, and to no
\* other channel.
C15_ExactlyConventionChannels ==
    discovered.done => discovered.channels = ConventionChannels(pg_trigger)

\* A discovery on a catalog of two convention triggers, an internal one and one
\* with another name found exactly the two channels.
C15_PlainCatalog ==
    /\ discovered.done
    /\ Cardinality(pg_trigger) = 4
    /\ \A tr \in pg_trigger : tr.tgrelid \in {<<"tasks">>, <<"users">>, <<"roles">>, <<"teams">>}
    /\ discovered.channels = {ChannelName(<<"tasks">>), ChannelName(<<"users">>)}

\* C16: a request that is refused (no token, no domain, failed authentication)
\* creates no session and changes neither map; every session of the session map
\* has the identity its handler got from a successful authentication.
C16_RefusedBeforeUpgrade ==
    /\ [][refused' # refused =>
            /\ sessions' = sessions /\ authenticatedSessions' = authenticatedSessions
            /\ connState' = connState /\ nextSession' = nextSession
            /\ identities' = identities]_vars
    /\ [](\A s \in DOMAIN sessions :
            /\ s \in DOMAIN authenticatedSessions
            /\ authenticatedSessions[s] = identities[s]
            /\ authenticatedSessions[s].TenantName \in Tenants)

\* A request without a domain was refused after a session had registered, and
\* no other session has been created.
C16_Witness ==
    /\ refused = "400 Domain parameter required"
    /\ DOMAIN sessions = {1} /\ connState[1] = "open"
    /\ nextSession = 2

\* C17: a cached identity is returned only before the entry's expiry, an entry's
\* expiry is never later than the token's expiry nor than the cache TTL after the
\* verification that populated it, a lookup at or after the expiry takes the full
\* verification path, and a failed verification leaves the cache as it was.
C17_CacheNeverOutlives ==
    /\ [](lastAuth.outcome = "cached" => lastAuth.at < lastAuth.until)
    /\ [](\A key \in DOMAIN tokenCache :
            tokenCache[key].TokenExpiresAt # 0
                => tokenCache[key].ExpiresAt <= tokenCache[key].TokenExpiresAt)
    /\ [][\A key \in DOMAIN tokenCache' :
            (key \notin DOMAIN tokenCache \/ tokenCache'[key] # tokenCache[key])
                => tokenCache'[key].ExpiresAt <= now + CacheTTL]_vars
    /\ [][(lastAuth' # lastAuth /\ lastAuth'.outcome = "failed") => tokenCache' = tokenCache]_vars

\* The token was cached, and a lookup of it past the entry's expiry took the
\* verification path and failed on the expired token: the dead entry was not served.
C17_Witness ==
    /\ lastAuth.outcome = "failed" /\ lastAuth.at >= TokenExpiresAt
    /\ CacheKey("token", "a.example") \in DOMAIN tokenCache
    /\ ~CacheEntryLive(tokenCache[CacheKey("token", "a.example")], now)

\* C18: when the landlord is unreachable at startup the process still comes to
\* serve, with no tenant pool, no listener and no connection task ever, and the
\* health endpoint answers degraded exactly when the landlord connection was not
\* established, healthy otherwise.
C18_StartsDegraded ==
    /\ <>(main = "serving")
    /\ [](landlordDB = "nil" =>
            /\ tenantDBs = EmptyMap /\ handles = <<>>
            /\ listeners = EmptyMap /\ retry = EmptyMap
            /\ startListeners = IdleStartListeners /\ ~landlordListening
            /\ \A c \in ReloadCallers : reload[c] = IdleReload)
    /\ [](main = "serving" =>
            /\ (landlordDB = "nil" => GetHealth = [status |-> "degraded", httpStatus |-> 503])
            /\ (landlordDB # "nil" => GetHealth = [status |-> "healthy", httpStatus |-> 200]))

\* The process serves without a landlord connection while tenants with reachable
\* databases have rows in the landlord's table, one of them inserted since.
C18_Witness ==
    /\ main = "serving" /\ landlordDB = "nil"
    /\ DOMAIN tenantsTable = Tenants /\ dbUp = AllUp /\ events > 0

\* C19: the handling of an INSERT notification whose new_data names a database
\* starts exactly one connectToTenantWithRetry task, for that tenant and database;
\* the handling of an INSERT without new_data or with an empty database name
\* starts none; in both cases the handler itself leaves the pool map, the
\* connections and the listeners as they were.
C19_InsertStartsRetry ==
    [][(landlordQueue # <<>> /\ landlordQueue' = Tail(landlordQueue)
            /\ Head(landlordQueue).operation = "INSERT") =>
        LET payload == Head(landlordQueue)
        IN /\ IF payload.new_data /\ payload.database # ""
              THEN \E r \in RetryIds \ DOMAIN retry :
                      /\ DOMAIN retry' = DOMAIN retry \cup {r}
                      /\ retry'[r] = NewRetry(payload.name, payload.database)
                      /\ \A q \in DOMAIN retry : retry'[q] = retry[q]
              ELSE retry' = retry
           /\ tenantDBs' = tenantDBs /\ handles' = handles /\ listeners' = listeners]_vars

\* Three INSERT notifications have been handled: tenant A's with a database, for
\* which a task runs, and two without a database name or without new_data, for which none does.
C19_Witness ==
    /\ events = 3 /\ landlordQueue = <<>>
    /\ DOMAIN tenantsTable = Tenants
    /\ \E r \in DOMAIN retry : DOMAIN retry = {r} /\ retry[r] = NewRetry("A", DatabaseOf("A"))
    /\ DOMAIN tenantDBs = {"B"}

\* C20: the step by which a connectToTenantWithRetry invocation returns after a
\* successful attempt puts its tenant in the pool map with the connection it
\* opened and starts exactly one listener, for that tenant and database; the step
\* by which it returns after a failed attempt is its attempt number maxRetries,
\* adds nothing to the pool map, opens no connection and starts no listener.
C20_RetryOutcome ==
    [][\A r \in DOMAIN retry : r \notin DOMAIN retry' =>
        /\ retry[r].pc = "install" =>
              /\ retry[r].tenant \in DOMAIN tenantDBs'
              /\ tenantDBs'[retry[r].tenant] = retry[r].h
              /\ \A t \in DOMAIN tenantDBs' \ {retry[r].tenant} :
                    t \in DOMAIN tenantDBs /\ tenantDBs'[t] = tenantDBs[t]
              /\ \E l \in ListenerIds \ DOMAIN listeners :
                    /\ DOMAIN listeners' = DOMAIN listeners \cup {l}
                    /\ listeners'[l] = NewListener(retry[r].tenant, retry[r].database)
                    /\ \A k \in DOMAIN listeners : listeners'[k] = listeners[k]
        /\ retry[r].pc = "connect" =>
              /\ retry[r].attempt = maxRetries /\ retry[r].calls = maxRetries - 1
              /\ tenantDBs' = tenantDBs /\ handles' = handles /\ listeners' = listeners]_vars

\* Tenant A's row was inserted and its notification handled, the one invocation
\* that started has returned, and A has no pool, no connection and no listener:
\* the invocation gave up after its last attempt.
C20_Witness ==
    /\ events = 1 /\ "A" \in DOMAIN tenantsTable /\ landlordQueue = <<>>
    /\ retry = EmptyMap
    /\ DOMAIN tenantDBs = {"B"} /\ Len(handles) = 1
    /\ ListenersOf("A") = {}

\* C21: whenever no notification is pending and no reconcile is running, the
\* pooled connection held under a tenant's name is a connection to the database
\* that the tenant's row names; in particular after the reconcile that follows an
\* UPDATE which changed the database name.
C21_PoolFollowsDatabaseName ==
    (landlordQueue = <<>> /\ \A c \in ReloadCallers : reload[c].pc = "idle") =>
        \A t \in DOMAIN tenantDBs \cap DOMAIN tenantsTable :
            handles[tenantDBs[t]].database = tenantsTable[t]

\* C22: the handling of a notification whose payload is empty or does not parse
\* starts a reconcile, and when that reconcile returns every tenant that its query
\* found in the landlord's table is in the pool map, except those whose
\* connection attempt failed during it.
C22_UnparsedReconciles ==
    /\ [][(landlordQueue # <<>> /\ landlordQueue' = Tail(landlordQueue)
                /\ Head(landlordQueue).extra \in {"", "malformed"})
            => reload["landlord"].pc = "idle" /\ reload'["landlord"].pc = "query"]_vars
    /\ [][(reload["landlord"].pc \in {"snapshot", "loop", "install"} /\ reload'["landlord"].pc = "idle")
            => \A t \in DOMAIN reload["landlord"].rows :
                  \/ t \in DOMAIN tenantDBs'
                  \/ t \in reload["landlord"].failed
                  \/ /\ reload["landlord"].pc = "loop" /\ reload["landlord"].todo = {t}
                     /\ handles' = handles]_vars

\* An unparsable notification arrived when tenant A's row, inserted before the
\* landlord listener could connect it, had no pool: the reconcile it started has
\* returned and A is in the pool map.
C22_Witness ==
    /\ events = 2 /\ landlordQueue = <<>>
    /\ \A c \in ReloadCallers : reload[c].pc = "idle"
    /\ reload["landlord"].newTenantsCount = 1
    /\ DOMAIN tenantDBs = Tenants

\* C23: the handling of a notification whose operation is CONNECTION_TEST or
\* MANUAL_TEST leaves the pool map, the connections, the listeners and the retry
\* tasks as they were, and starts no reconcile.
C23_SelfTestIgnored ==
    [][(landlordQueue # <<>> /\ landlordQueue' = Tail(landlordQueue)
            /\ Head(landlordQueue).extra = "json"
            /\ Head(landlordQueue).operation \in SelfTestMarkers)
        => /\ tenantDBs' = tenantDBs /\ handles' = handles
           /\ listeners' = listeners /\ retry' = retry
           /\ reload' = reload]_vars

\* Tenant A's row is in the table without a pool, its connection task having
\* given up, and two further notifications have been handled without any
\* reconcile connecting it: they were self-tests.
C23_Witness ==
    /\ events = 3 /\ landlordQueue = <<>>
    /\ tenantsTable = [t \in Tenants |-> DatabaseOf(t)]
    /\ dbUp[DatabaseOf("A")]
    /\ retry = EmptyMap /\ \A c \in ReloadCallers : reload[c] = IdleReload
    /\ DOMAIN tenantDBs = {"B"} /\ Len(handles) = 1

\* C24: a reconcile takes as existing the names in the pool map at its snapshot;
\* it opens a connection, stores a pool and starts a listener only for names
\* outside that set, one listener per pool it stores, and leaves the pools and
\* listeners of the names in the set alone; the number it reports when it returns
\* is the number of tenants it stored a pool for.
C24_ReconcileOnlyNew ==
    /\ [][\A c \in ReloadCallers \ {"main"} :
            /\ (reload[c].pc = "snapshot" /\ reload'[c].pc = "loop")
                  => /\ reload'[c].existingTenants = DOMAIN tenantDBs
                     /\ reload'[c].todo \cap DOMAIN tenantDBs = {}
                     /\ reload'[c].newTenantsCount = 0 /\ reload'[c].added = {}
            /\ (reload[c].pc = "loop" /\ reload'[c].pc = "install")
                  => /\ reload'[c].cur \notin reload[c].existingTenants
                     /\ handles' = Append(handles, handles'[Len(handles')])
                     /\ handles'[Len(handles')].tenant = reload'[c].cur
            /\ (reload[c].pc = "loop" /\ reload'[c].pc # "install" /\ reload'[c] # reload[c])
                  => handles' = handles /\ tenantDBs' = tenantDBs /\ listeners' = listeners
            /\ (reload[c].pc = "install" /\ reload'[c] # reload[c])
                  => /\ reload[c].cur \notin reload[c].existingTenants
                     /\ tenantDBs' = Put(tenantDBs, reload[c].cur, reload[c].h)
                     /\ \E l \in ListenerIds \ DOMAIN listeners :
                           /\ DOMAIN listeners' = DOMAIN listeners \cup {l}
                           /\ listeners'[l].tenant = reload[c].cur
                           /\ \A k \in DOMAIN listeners : listeners'[k] = listeners[k]
            /\ (reload[c].pc \in {"loop", "install"} /\ reload'[c].pc = "idle")
                  => reload'[c].newTenantsCount =
                        Cardinality(reload[c].added
                                    \cup (IF reload[c].pc = "install" THEN {reload[c].cur} ELSE {}))]_vars
    /\ [](\A c \in ReloadCallers \ {"main"} :
            reload[c].pc \in {"loop", "install"}
                => /\ reload[c].newTenantsCount = Cardinality(reload[c].added)
                   /\ reload[c].added \cap reload[c].existingTenants = {})

\* A reconcile called through ReloadTenants has returned reporting one new
\* tenant: A has a pool and one listener, and B, which was in the pool map at the
\* snapshot, still has the connection and the one listener it had.
C24_Witness ==
    /\ reload["api"].pc = "idle" /\ reload["api"].newTenantsCount = 1
    /\ reload["landlord"] = IdleReload /\ retry = EmptyMap
    /\ "A" \in DOMAIN tenantDBs /\ Cardinality(ListenersOf("A")) = 1
    /\ tenantDBs["B"] = 1 /\ Cardinality(ListenersOf("B")) = 1
    /\ Len(handles) = 2

\* C25: in the loop of loadTenantDatabases and in that of reloadTenantDatabases a
\* tenant whose connect fails is skipped and the loop goes on with the others: the
\* tenants still to visit, those connected and those failed always make up the
\* tenants the loop started with, every tenant connected is in the pool map, and
\* the loop returns only when it has visited them all.
C25_FailuresAreSkipped ==
    /\ [](\A c \in ReloadCallers :
            reload[c].pc \in {"loop", "install"} =>
                LET rl == reload[c]
                    cur == IF rl.pc = "install" THEN {rl.cur} ELSE {}
                IN /\ rl.todo \cup cur \cup rl.added \cup rl.failed = DOMAIN rl.rows \ rl.existingTenants
                   /\ rl.added \subseteq DOMAIN tenantDBs
                   /\ rl.added \cap rl.failed = {} /\ rl.todo \cap (rl.added \cup rl.failed \cup cur) = {})
    /\ [][\A c \in ReloadCallers :
            (reload[c].pc \in {"loop", "install"} /\ reload'[c].pc = "idle")
                => /\ Cardinality(reload[c].todo) <= 1
                   /\ \A t \in DOMAIN reload[c].rows \ reload[c].existingTenants :
                         \/ t \in DOMAIN tenantDBs'
                         \/ t \in reload[c].failed
                         \/ reload[c].pc = "loop" /\ reload[c].todo = {t} /\ handles' = handles]_vars

\* Both tenants have a row and the loops have returned: one tenant's connect
\* failed in every loop that visited it, the other's succeeded, and the pool map
\* holds exactly the tenant that connected.
C25_Witness ==
    /\ main = "serving" /\ \A c \in ReloadCallers : reload[c].pc = "idle"
    /\ Len(handles) = 1 /\ DOMAIN tenantDBs = {handles[1].tenant}
    /\ dbUp = AllUp

\* C26: a listener whose channel discovery yields zero channels ends there: it is
\* never in the event loop, subscribed to nothing, and the step that runs its
\* discovery removes it.
C26_ZeroChannelsExit ==
    /\ [](\A l \in DOMAIN listeners :
            triggers[listeners[l].tenant] = {}
                => listeners[l].pc \in {"start", "query"} /\ listeners[l].channels = {})
    /\ [][\A l \in DOMAIN listeners :
            (listeners[l].pc = "query" /\ triggers[listeners[l].tenant] = {}
                /\ (l \notin DOMAIN listeners' \/ listeners'[l] # listeners[l]))
                => l \notin DOMAIN listeners']_vars

\* Tenant B, whose database has no change trigger, was connected by its retry
\* task; the listener that the task started has run its discovery and is gone.
C26_Witness ==
    /\ "B" \in DOMAIN tenantDBs /\ retry = EmptyMap
    /\ handles[tenantDBs["B"]].open /\ dbUp[DatabaseOf("B")]
    /\ ListenersOf("B") = {}

\* C27: a listener in its event loop (or in a broadcast started from it) ends only
\* by the step of a failed keepalive probe, taken with no notification pending
\* and its database connection down; the handling of a notification, valid,
\* malformed or nil, and the handling of its tenant's DELETE leave it running.
C27_EndsOnlyOnProbeFailure ==
    /\ [][\A l \in DOMAIN listeners :
            (Subscribed(l) /\ l \notin DOMAIN listeners')
                => /\ listeners[l].pc = "loop" /\ listeners[l].inbox = <<>>
                   /\ ~dbUp[listeners[l].database]
                   /\ landlordQueue' = landlordQueue /\ tenantDBs' = tenantDBs]_vars
    /\ [][\A l \in DOMAIN listeners :
            (listeners[l].pc = "loop" /\ listeners[l].inbox # <<>> /\ emitted' = emitted)
                => l \in DOMAIN listeners']_vars
    /\ [][(landlordQueue # <<>> /\ landlordQueue' = Tail(landlordQueue)
                /\ Head(landlordQueue).operation = "DELETE")
            => listeners' = listeners]_vars

\* Tenant A's row was deleted and the DELETE handled, notifications were handled
\* by A's listener, which then ended on a failed probe.
C27_Witness ==
    /\ "A" \notin DOMAIN tenantsTable /\ "A" \notin DOMAIN tenantDBs /\ landlordQueue = <<>>
    /\ emitted["A"] = MaxNotifications
    /\ ListenersOf("A") = {}
    /\ ~dbUp[DatabaseOf("A")]

\* C28: the handling of a notification whose payload does not parse takes it off
\* the listener's queue and changes nothing else: no session is written, the
\* session maps, the pool map and the connections are as before, and the listener
\* is in its event loop with the notifications that follow.
C28_MalformedDropped ==
    [][\A l \in DOMAIN listeners :
          (/\ listeners[l].pc = "loop" /\ listeners[l].inbox # <<>>
           /\ Head(listeners[l].inbox).extra = "malformed"
           /\ emitted' = emitted
           /\ (l \notin DOMAIN listeners' \/ listeners'[l] # listeners[l]))
              => /\ l \in DOMAIN listeners'
                 /\ listeners'[l] = [listeners[l] EXCEPT !.inbox = Tail(@)]
                 /\ received' = received /\ connState' = connState
                 /\ sessions' = sessions /\ authenticatedSessions' = authenticatedSessions
                 /\ tenantDBs' = tenantDBs /\ handles' = handles]_vars

\* Two notifications came from A's database; a session of tenant A has been
\* written the second and not the first (malformed, nil, or handled before the
\* session registered), and A's listener is back in its event loop.
C28_Witness ==
    /\ emitted["A"] = 2
    /\ 1 \in DOMAIN sessions /\ Len(received[1]) = 1 /\ received[1][1].n = 2
    /\ \A l \in ListenersOf("A") : listeners[l].pc = "loop" /\ listeners[l].inbox = <<>>
    /\ ListenersOf("A") # {}

\* The broadcast running in listener l took the step: its position or its locals changed.
BroadcastStepped(l) ==
    listeners'[l].pc # listeners[l].pc \/ listeners'[l].b # listeners[l].b

\* C29: during a broadcast, publication or system, the session whose write failed
\* is deleted from the session map and from the identity map in one step taken
\* with the lock free, and no other entry is touched: the step that writes
\* (successfully or not) changes neither map, and the removal step removes
\* exactly the failed id, which is a session that is no longer open.
C29_FailedSessionHolds ==
    /\ \A l \in DOMAIN listeners :
         listeners[l].pc = "remove" =>
           listeners[l].b.failed \in SessionIds /\ connState[listeners[l].b.failed] # "open"
    /\ system.pc = "remove" => system.failed \in SessionIds /\ connState[system.failed] # "open"

C29_RemovalStep ==
    /\ \A l \in DOMAIN listeners \cap DOMAIN listeners' :
         BroadcastStepped(l) =>
           /\ listeners[l].pc = "remove" =>
                 /\ mutex = "free" /\ mutex' = "free"
                 /\ sessions' = Remove(sessions, listeners[l].b.failed)
                 /\ authenticatedSessions' = Remove(authenticatedSessions, listeners[l].b.failed)
           /\ listeners[l].pc = "send" =>
                 sessions' = sessions /\ authenticatedSessions' = authenticatedSessions
    /\ system' # system =>
         /\ system.pc = "remove" =>
               /\ mutex = "free" /\ mutex' = "free"
               /\ sessions' = Remove(sessions, system.failed)
               /\ authenticatedSessions' = Remove(authenticatedSessions, system.failed)
         /\ system.pc = "send" =>
               sessions' = sessions /\ authenticatedSessions' = authenticatedSessions

C29_FailedSessionRemovedFromBoth == []C29_FailedSessionHolds /\ [][C29_RemovalStep]_vars

\* The first publication broadcast (no system broadcast yet) has written to one
\* session of tenant A and removed the other, whose client had gone and whose
\* reader has not cleaned up: the gone one is in neither map, the served one in both.
C29_Witness ==
    /\ TotalEmitted = 1 /\ system.calls = 0
    /\ \E failed, ok \in SessionIds :
         /\ connState[failed] = "dead"
         /\ failed \notin DOMAIN sessions /\ failed \notin DOMAIN authenticatedSessions
         /\ Len(received[ok]) = 1
         /\ ok \in DOMAIN sessions /\ ok \in DOMAIN authenticatedSessions

\* C30: a failed write never ends a broadcast: each step of the loop takes exactly
\* one session out of the part of the snapshot still to do, the removal step takes
\* none, the broadcast returns only when that part is empty, and every session
\* taken that is authorized (any session, for a system broadcast) is either
\* written the message or marked as failed, wherever the failing one came in
\* the iteration.
C30_Rest(l) == IF listeners'[l].pc = "loop" THEN {} ELSE listeners'[l].b.todo

C30_SystemRest == IF system'.pc = "idle" THEN {} ELSE system'.todo

C30_LoopStep ==
    /\ \A l \in DOMAIN listeners \cap DOMAIN listeners' :
         BroadcastStepped(l) =>
           /\ listeners[l].pc = "remove" => C30_Rest(l) = listeners[l].b.todo
           /\ listeners[l].pc = "send" =>
                 \E x \in listeners[l].b.todo :
                    /\ C30_Rest(l) = listeners[l].b.todo \ {x}
                    /\ (x \in DOMAIN listeners[l].b.authSessions
                         /\ canAccessTenant(listeners[l].b.authSessions[x], listeners[l].b.msg.tenant_name))
                       => \/ received'[x] = Append(received[x], listeners[l].b.msg)
                          \/ listeners'[l].pc = "remove" /\ listeners'[l].b.failed = x
    /\ system' # system =>
         /\ system.pc = "remove" => C30_SystemRest = system.todo
         /\ system.pc = "send" =>
               \E x \in system.todo :
                  /\ C30_SystemRest = system.todo \ {x}
                  /\ \/ received'[x] = Append(received[x], SystemMessage)
                     \/ system'.pc = "remove" /\ system'.failed = x

C30_FailureDoesNotAbort == [][C30_LoopStep]_vars

\* In the first publication broadcast the write to one session of tenant A failed
\* and that session was removed; the loop is at the other session of tenant A,
\* which is still to be written.
C30_Witness ==
    /\ TotalEmitted = 1 /\ system.calls = 0
    /\ \E l \in DOMAIN listeners, failed, next \in SessionIds :
         /\ listeners[l].pc = "send"
         /\ listeners[l].b.todo = {next}
         /\ canAccessTenant(listeners[l].b.authSessions[next], listeners[l].b.msg.tenant_name)
         /\ connState[failed] = "dead" /\ failed \notin DOMAIN sessions

\* C31: cleanupSession is idempotent. In every state, for every session id,
\* applying its two deletes twice gives the maps that applying them once gives, and
\* applying them to an id that is in neither map gives the maps as they are; and
\* the step in which a reader runs cleanupSession leaves both maps as they are
\* when a broadcast or a sweep has already removed its id, and otherwise removes
\* that id alone.
C31_Unregistered(s) == <<Remove(sessions, s), Remove(authenticatedSessions, s)>>

C31_Algebra ==
    \A s \in SessionIds :
        LET once == C31_Unregistered(s)
            twice == <<Remove(once[1], s), Remove(once[2], s)>>
        IN /\ twice = once
           /\ (s \notin DOMAIN sessions /\ s \notin DOMAIN authenticatedSessions)
                 => once = <<sessions, authenticatedSessions>>

C31_CleanupStep ==
    \A s \in SessionIds :
        (connState[s] = "dead" /\ connState'[s] = "done") =>
            /\ <<sessions', authenticatedSessions'>> = C31_Unregistered(s)
            /\ (s \notin DOMAIN sessions /\ s \notin DOMAIN authenticatedSessions)
                  => sessions' = sessions /\ authenticatedSessions' = authenticatedSessions
            /\ \A x \in DOMAIN sessions \ {s} : x \in DOMAIN sessions' /\ sessions'[x] = sessions[x]
            /\ \A x \in DOMAIN authenticatedSessions \ {s} :
                  x \in DOMAIN authenticatedSessions' /\ authenticatedSessions'[x] = authenticatedSessions[x]

C32_NoneWithoutIdentity ==
    \A s \in DOMAIN sessions \ DOMAIN authenticatedSessions : received[s] = <<>>

C32_WriteStep ==
    \A s \in SessionIds :
        received'[s] # received[s] =>
            \E l \in DOMAIN listeners :
                /\ listeners[l].pc = "send"
                /\ s \in listeners[l].b.todo
                /\ s \in DOMAIN listeners[l].b.authSessions
                /\ canAccessTenant(listeners[l].b.authSessions[s], listeners[l].b.msg.tenant_name)
                /\ received'[s] = Append(received[s], listeners[l].b.msg)

C32_UnauthenticatedSkipped == []C32_NoneWithoutIdentity /\ [][C32_WriteStep]_vars

\* A broadcast for tenant A has returned: session 2, with an identity of tenant A,
\* was written the message; session 1, open, of tenant A and in the session map
\* without identity, was written nothing and is still in the session map.
C32_Witness ==
    /\ TotalEmitted = 1
    /\ \A l \in DOMAIN listeners : listeners[l].pc = "loop" /\ listeners[l].inbox = <<>>
    /\ 1 \in DOMAIN sessions /\ 1 \notin DOMAIN authenticatedSessions
    /\ sessions[1] = "A" /\ connState[1] = "open" /\ received[1] = <<>>
    /\ 2 \in DOMAIN authenticatedSessions /\ Len(received[2]) = 1

\* C33: a session whose connection has a read error (the client is gone) or on
\* which writes fail is eventually in neither the session map nor the identity
\* map, with its reader's cleanupSession done; for a connection on which only
\* writes fail that is after the write pump closed it.
C33_Broken(s) == connState[s] \in {"writeBroken", "dead"}

C33_Unregistered(s) == s \notin DOMAIN sessions /\ s \notin DOMAIN authenticatedSessions

C33_BrokenSessionRemoved ==
    \A s \in SessionIds : C33_Broken(s) ~> (C33_Unregistered(s) /\ connState[s] = "done")

\* The connection of session 1 broke (a read error, or a write error followed by
\* the write pump's close) and its reader has run cleanupSession, no sweep
\* running: session 1 is in neither map, session 2 is still served.
C33_Witness ==
    /\ connState[1] = "done" /\ C33_Unregistered(1)
    /\ connState[2] = "open" /\ 2 \in DOMAIN sessions
    /\ zombie.pc = "idle"

\* C34: closeDatabases closes every connection of the pool map and then the
\* landlord connection, whatever the Close calls answer: while it runs the
\* landlord connection is not closed yet, it returns only in the step that closes
\* the landlord connection, and in that step no connection of the pool map is open.
C34_LandlordLast == mutex = "closeDatabases" => landlordDB = "connected"

C34_ReturnStep ==
    (mutex = "closeDatabases" /\ mutex' # "closeDatabases") =>
        /\ landlordDB' = "closed"
        /\ tenantDBs' = tenantDBs
        /\ \A t \in DOMAIN tenantDBs : ~handles[tenantDBs[t]].open /\ ~handles'[tenantDBs[t]].open

C34_ShutdownClosesAll == []C34_LandlordLast /\ [][C34_ReturnStep]_vars

\* closeDatabases has returned with both tenants in the pool map: both pooled
\* connections and the landlord connection are closed.
C34_Witness ==
    /\ mutex = "free" /\ landlordDB = "closed"
    /\ DOMAIN tenantDBs = Tenants
    /\ \A t \in Tenants : ~handles[tenantDBs[t]].open

\* C35: at most one task is inside a write on a given session's connection at any
\* time.
C35_SingleWriter == \A s \in SessionIds : Cardinality(writers[s]) <= 1

\* C36: every connection that connectToTenant opened and pinged is the value of
\* the pool map under its tenant's name, or is closed, or is in the hands of the
\* task that opened it and is about to install it.
C36_AboutToInstall(h) ==
    \/ \E r \in DOMAIN retry : retry[r].pc = "install" /\ retry[r].h = h
    \/ \E c \in ReloadCallers : reload[c].pc = "install" /\ reload[c].h = h

C36_NoPoolLeak ==
    \A h \in DOMAIN handles :
        handles[h].open =>
            \/ handles[h].tenant \in DOMAIN tenantDBs /\ tenantDBs[handles[h].tenant] = h
            \/ C36_AboutToInstall(h)

\* C37: a retry task does not install a pool or start a listener for a tenant
\* whose DELETE notification has been processed: at the step in which a retry
\* task installs, the task's tenant has its row in the landlord's table or a
\* notification about it is still to be handled.
C37_DeleteProcessed(t) ==
    /\ t \notin DOMAIN tenantsTable
    /\ \A i \in DOMAIN landlordQueue : landlordQueue[i].name # t

C37_NoStaleReconnect ==
    [][\A r \in DOMAIN retry :
          (retry[r].pc = "install" /\ r \notin DOMAIN retry')
              => ~C37_DeleteProcessed(retry[r].tenant)]_vars

\* C38: every session that DisconnectAllSessions removes from the registry has had
\* its connection closed: the step that replaces both maps by empty ones removes no
\* session whose connection is still open, and leaves both maps empty.
C38_DisconnectClosesAllRemoved ==
    [][(disconnect.pc = "closing" /\ disconnect'.pc = "idle")
          => /\ \A s \in DOMAIN sessions : connState[s] # "open"
             /\ sessions' = EmptyMap /\ authenticatedSessions' = EmptyMap]_vars

\* C39: reloadTenantDatabases never removes or closes an entry of the pool map: a
\* step of a reload leaves every name that is in the pool map in it and closes no
\* handle, whether or not the tenant is still in the landlord's table; and a step
\* after which a name is gone from the pool map is the handling of a DELETE
\* notification for that name.
C39_ReloadStep ==
    reload' # reload =>
        /\ DOMAIN tenantDBs \subseteq DOMAIN tenantDBs'
        /\ \A h \in DOMAIN handles : handles[h].open => handles'[h].open

C39_RemovalStep ==
    \A t \in DOMAIN tenantDBs \ DOMAIN tenantDBs' :
        /\ landlordQueue # <<>>
        /\ Head(landlordQueue).operation = "DELETE"
        /\ Head(landlordQueue).name = t
        /\ landlordQueue' = Tail(landlordQueue)

C39_ReconcileOnlyAdds == [][C39_ReloadStep /\ C39_RemovalStep]_vars

\* A reconcile has read the table without tenant B's row and is about to install
\* tenant A's pool, while B's entry is in the pool map with its handle open.
C39_Witness ==
    \E c \in ReloadCallers :
        /\ reload[c].pc = "install" /\ reload[c].cur = "A"
        /\ "B" \notin DOMAIN reload[c].rows /\ "B" \notin DOMAIN tenantsTable
        /\ "B" \in DOMAIN tenantDBs /\ handles[tenantDBs["B"]].open

\* C40: at startup a listener is started only for a tenant that is both in the copy
\* of the pool map and in the rows of the tenants query; a started listener that
\* does not find its tenant in the pool map ends there, without subscribing; and a
\* tenant whose startup connection failed, so that no handle was ever opened for
\* it, has no listener.
C40_SpawnStep ==
    startListeners.pc = "rows" =>
        \A l \in DOMAIN listeners' \ DOMAIN listeners :
            /\ listeners'[l].tenant \in startListeners.tenantDBs
            /\ listeners'[l].tenant \in DOMAIN startListeners.rows
            /\ listeners'[l].pc = "start"

C40_LookupStep ==
    \A l \in DOMAIN listeners :
        (listeners[l].pc = "start" /\ listeners[l].tenant \notin DOMAIN tenantDBs)
            => l \notin DOMAIN listeners' \/ listeners'[l] = listeners[l]

C40_NeverConnected(t) == \A h \in DOMAIN handles : handles[h].tenant # t

C40_StartupListeners ==
    /\ [](\A l \in DOMAIN listeners : ~C40_NeverConnected(listeners[l].tenant))
    /\ [][C40_SpawnStep /\ C40_LookupStep]_vars

\* startPublicationListeners has finished: tenant A, whose startup connection
\* failed, has a row and no listener; tenant B's listener was started and has yet
\* to look B up, and B's DELETE has been handled in the meantime.
C40_Witness ==
    /\ main = "serving" /\ startListeners.pc = "idle"
    /\ "A" \in DOMAIN tenantsTable /\ C40_NeverConnected("A")
    /\ \A l \in DOMAIN listeners : listeners[l].tenant # "A"
    /\ \E l \in DOMAIN listeners : listeners[l].tenant = "B" /\ listeners[l].pc = "start"
    /\ "B" \notin DOMAIN tenantDBs

====
